---------------------------- MODULE Spec2Model ----------------------------
(***************************************************************************)
(* Featrix model card renderers.                                           *)
(*                                                                         *)
(* The React component ModelCard (react/ModelCard.tsx), the standalone      *)
(* JavaScript renderer FeatrixModelCard in its two builds                   *)
(* (javascript/model-card.js and the build carried by                       *)
(* javascript/publish-cdn.sh), their formatting helpers and the chart data  *)
(* derived from a model card document.                                      *)
(***************************************************************************)
EXTENDS Integers, Sequences, FiniteSets, TLC

(***************************************************************************)
(* Section ids of the React component.                                     *)
(***************************************************************************)

\* A component that starts with every section collapsed.
InitialExpanded_none == {}

\* The three ids of the initial useState value.
InitialExpanded ==
    {"model-identification", "training-metrics", "model-quality"}

\* expandAll with one id forgotten in its literal.
ExpandAllIds_forgets ==
    {"model-identification", "training-dataset", "feature-inventory",
     "training-configuration", "training-metrics", "model-architecture",
     "model-quality", "technical-details", "provenance"}

\* The ten ids of the Set literal that expandAll installs.
ExpandAllIds ==
    {"model-identification", "training-dataset", "feature-inventory",
     "training-configuration", "training-metrics", "model-architecture",
     "model-quality", "technical-details", "provenance",
     "column-statistics"}

\* The ids renderSection is called with, in the order of the calls.
RenderOrder ==
    <<"model-identification", "training-metrics", "model-quality",
      "training-dataset", "feature-inventory", "training-configuration",
      "model-architecture", "technical-details", "provenance",
      "column-statistics">>

SectionIds == {RenderOrder[k] : k \in 1..Len(RenderOrder)}

(***************************************************************************)
(* JSON values as JavaScript sees them.  A number is the decimal m / 10^e. *)
(* A key that is missing from an object reads as Undefined.                *)
(***************************************************************************)
Undefined == [t |-> "undefined"]
Null      == [t |-> "null"]
Str(s)    == [t |-> "string", v |-> s]
Dec(m, e) == [t |-> "number", m |-> m, e |-> e]
Whole(n)    == Dec(n, 0)
Bool(b)   == [t |-> "boolean", v |-> b]
Obj(r)    == [t |-> "object", v |-> r]
Arr(a)    == [t |-> "array", v |-> a]
\* An object read through Object.entries / Object.keys: its own keys in
\* insertion order, each entry <<key, value>>.
Dict(es)  == [t |-> "object", entries |-> es]

\* {}
EmptyObject == Obj(<<>>)

IsAbsent(x) == x.t \in {"undefined", "null"}

\* ToBoolean: what `x || y`, `x && y`, `!x` and `x ? a : b` test.
Truthy(x) ==
    CASE x.t \in {"undefined", "null"} -> FALSE
      [] x.t = "string"  -> x.v # ""
      [] x.t = "number"  -> x.m # 0
      [] x.t = "boolean" -> x.v
      [] OTHER -> TRUE

\* x || y
OrElse(x, y) == IF Truthy(x) THEN x ELSE y

\* o.k: reading a property of undefined or null is a TypeError (GetThrows);
\* any other value without the key reads as undefined.
GetThrows(o) == IsAbsent(o)
Get(o, k) ==
    IF o.t = "object" /\ "v" \in DOMAIN o /\ k \in DOMAIN o.v
    THEN o.v[k] ELSE Undefined

(***************************************************************************)
(* JavaScript strings and numbers.                                         *)
(***************************************************************************)
\* The letter of `to` at the place c has in `from`; c itself when it has none.
MapChar(c, from, to) ==
    IF \E k \in 1..Len(from) : SubSeq(from, k, k) = c
    THEN LET k == CHOOSE k \in 1..Len(from) : SubSeq(from, k, k) = c
         IN  SubSeq(to, k, k)
    ELSE c

RECURSIVE MapString(_, _, _)
MapString(str, from, to) ==
    IF str = "" THEN ""
    ELSE MapChar(SubSeq(str, 1, 1), from, to)
            \o MapString(SubSeq(str, 2, Len(str)), from, to)

\* String.prototype.toLowerCase / toUpperCase
ToLowerCase(str) ==
    MapString(str, "ABCDEFGHIJKLMNOPQRSTUVWXYZ", "abcdefghijklmnopqrstuvwxyz")
ToUpperCase(str) ==
    MapString(str, "abcdefghijklmnopqrstuvwxyz", "ABCDEFGHIJKLMNOPQRSTUVWXYZ")

\* str.substring(0, n)
Substring0(str, n) == SubSeq(str, 1, IF Len(str) < n THEN Len(str) ELSE n)

RECURSIVE Pow10(_)
Pow10(k) == IF k = 0 THEN 1 ELSE 10 * Pow10(k - 1)

\* n in decimal digits, left-padded with zeros to at least w digits.
RECURSIVE PadStart(_, _)
PadStart(str, w) == IF Len(str) >= w THEN str ELSE PadStart("0" \o str, w)

\* Number.prototype.toFixed(p) of m / 10^e: rounded to p decimals (half away
\* from zero on the decimal value), always with p fraction digits.
ToFixed(m, e, p) ==
    LET abs    == IF m < 0 THEN -m ELSE m
        scaled == IF e <= p THEN abs * Pow10(p - e)
                  ELSE (abs + Pow10(e - p) \div 2) \div Pow10(e - p)
        whole  == ToString(scaled \div Pow10(p))
        frac   == PadStart(ToString(scaled % Pow10(p)), p)
    IN  (IF m < 0 THEN "-" ELSE "")
            \o whole \o (IF p > 0 THEN "." \o frac ELSE "")

\* How many "0" characters str ends with.
RECURSIVE TrailingZeros(_)
TrailingZeros(str) ==
    IF str # "" /\ SubSeq(str, Len(str), Len(str)) = "0"
    THEN 1 + TrailingZeros(SubSeq(str, 1, Len(str) - 1))
    ELSE 0

\* str.replace(/\.?0+$/, ''): the leftmost match is the run of zeros that ends
\* the string, together with a "." right in front of it.
StripZeros(str) ==
    LET z    == TrailingZeros(str)
        keep == Len(str) - z
    IN  IF z = 0 THEN str
        ELSE IF keep > 0 /\ SubSeq(str, keep, keep) = "."
             THEN SubSeq(str, 1, keep - 1)
             ELSE SubSeq(str, 1, keep)

\* String(x) of a number: the shortest decimal.
NumText(m, e) == IF e = 0 THEN ToFixed(m, 0, 0) ELSE StripZeros(ToFixed(m, e, e))

\* Intl grouping of the integer digits (en-US): a "," every three digits.
RECURSIVE GroupThousands(_)
GroupThousands(digits) ==
    IF Len(digits) <= 3 THEN digits
    ELSE GroupThousands(SubSeq(digits, 1, Len(digits) - 3))
            \o "," \o SubSeq(digits, Len(digits) - 2, Len(digits))

\* String(x), as a template literal `${x}` converts a value.
ToText(x) ==
    CASE x.t = "string"    -> x.v
      [] x.t = "number"    -> NumText(x.m, x.e)
      [] x.t = "boolean"   -> IF x.v THEN "true" ELSE "false"
      [] x.t = "null"      -> "null"
      [] x.t = "undefined" -> "undefined"
      [] x.t = "array"     -> "[array]"
      [] OTHER             -> "[object Object]"

\* x.toLocaleString() in the en-US locale (x is not null or undefined).
ToLocaleText(x) ==
    IF x.t = "number" /\ x.e = 0 /\ x.m >= 0
    THEN GroupThousands(ToText(x)) ELSE ToText(x)

(***************************************************************************)
(* The example document of react/example/App.tsx (long strings and the     *)
(* parameter count shortened).                                             *)
(***************************************************************************)
ColumnStats(mi, ml) ==
    Obj([mutual_information_bits |-> mi, marginal_loss |-> ml])

BaseColumnStatistics ==
    Dict(<<  <<"fleet_size", ColumnStats(Dec(234, 2), Dec(12, 3))>>,
             <<"annual_revenue", ColumnStats(Dec(187, 2), Dec(8, 3))>>  >>)

BaseDoc ==
    Obj([model_identification   |->
             Obj([session_id         |-> Str("public-alphafreight-mini-8c48"),
                  job_id             |-> Str("cadab2-20251118"),
                  name               |-> Str("alphafreight-mini"),
                  target_column      |-> Str("has_fuel_card"),
                  target_column_type |-> Str("set"),
                  compute_cluster    |-> Str("BURRITO"),
                  training_date      |-> Str("2025-11-18"),
                  status             |-> Str("DONE"),
                  model_type         |-> Str("Single Predictor"),
                  framework          |-> Str("FeatrixSphere")]),
         training_dataset       |->
             Obj([train_rows     |-> Whole(431),
                  val_rows       |-> Whole(108),
                  total_rows     |-> Whole(539),
                  total_features |-> Whole(15),
                  feature_names  |-> Arr(<<Str("fleet_size"), Str("annual_revenue")>>),
                  target_column  |-> Str("has_fuel_card")]),
         feature_inventory      |->
             Arr(<<Obj([name          |-> Str("fleet_size"),
                        type          |-> Str("scalar"),
                        encoder_type  |-> Str("ScalarCodec"),
                        unique_values |-> Null,
                        sample_values |-> Null,
                        statistics    |-> Obj([min |-> Whole(5), max |-> Whole(500),
                                                mean |-> Dec(452, 1),
                                                std |-> Dec(785, 1),
                                                median |-> Whole(25)])]),
                   Obj([name          |-> Str("primary_operation"),
                        type          |-> Str("set"),
                        encoder_type  |-> Str("SetCodec"),
                        unique_values |-> Whole(8),
                        sample_values |-> Arr(<<Str("long_haul"), Str("local_delivery"),
                                                Str("regional"), Str("interstate"),
                                                Str("specialized")>>),
                        statistics    |-> Null])>>),
         training_configuration |->
             Obj([epochs_total     |-> Whole(32),
                  best_epoch       |-> Whole(28),
                  d_model          |-> Whole(512),
                  batch_size       |-> Whole(64),
                  learning_rate    |-> Dec(1, 3),
                  optimizer        |-> Str("Adam"),
                  dropout_schedule |-> Undefined]),
         training_metrics       |->
             Obj([best_epoch |-> Obj([epoch |-> Whole(28),
                                      validation_loss |-> Dec(1334, 4),
                                      train_loss |-> Dec(1256, 4)]),
                  classification_metrics |-> Obj([accuracy  |-> Dec(925, 3),
                                                  precision |-> Dec(912, 3),
                                                  recall    |-> Dec(887, 3),
                                                  f1        |-> Dec(899, 3),
                                                  auc       |-> Dec(967, 3),
                                                  is_binary |-> Bool(TRUE)]),
                  optimal_threshold |->
                      Obj([optimal_threshold |-> Dec(452, 3),
                           pos_label |-> Str("true"),
                           optimal_threshold_f1 |-> Dec(899, 3),
                           accuracy_at_optimal_threshold |-> Dec(925, 3)])]),
         model_architecture     |->
             Obj([predictor_layers        |-> Whole(5),
                  predictor_parameters    |-> Whole(264925),
                  embedding_space_d_model |-> Whole(512)]),
         model_quality          |->
             Obj([assessment      |-> Null,
                  recommendations |-> Null,
                  warnings        |->
                      Arr(<<Obj([type           |-> Str("CLASS_IMBALANCE"),
                                 severity       |-> Str("MODERATE"),
                                 message        |-> Str("Class imbalance detected"),
                                 details        |-> Null,
                                 recommendation |-> Str("Consider class weights")])>>),
                  training_quality_warning |-> Null]),
         technical_details      |->
             Obj([pytorch_version |-> Str("2.1.0"),
                  device          |-> Str("GPU"),
                  precision       |-> Str("float32"),
                  normalization   |-> Null,
                  loss_function   |-> Str("CrossEntropyLoss")]),
         provenance             |->
             Obj([created_at                |-> Str("2025-11-18T01:08:09"),
                  training_duration_minutes |-> Dec(452, 1),
                  version_info              |-> Null]),
         column_statistics      |-> BaseColumnStatistics])

\* doc with the value at top-level key k replaced.
WithSection(doc, k, x) == Obj([doc.v EXCEPT ![k] = x])

\* The documents a mounted component is given: an embedding-space card with
\* column statistics, and cards without them or with an empty map.
UiDocs ==
    {BaseDoc,
     WithSection(BaseDoc, "column_statistics", Undefined),
     WithSection(BaseDoc, "column_statistics", Dict(<<>>))}

\* x with the value at a path of keys replaced (nothing to replace where the
\* path leaves the objects).
RECURSIVE SetPath(_, _, _)
SetPath(x, path, to) ==
    IF path = <<>> THEN to
    ELSE IF x.t = "object" /\ "v" \in DOMAIN x /\ Head(path) \in DOMAIN x.v
         THEN Obj([x.v EXCEPT ![Head(path)] = SetPath(@, Tail(path), to)])
         ELSE x

At1(path, values) == {[path |-> path, to |-> v] : v \in values}

Warning(severity, type) ==
    Obj([type |-> type, severity |-> severity,
         message |-> Str("Low sample count"), details |-> Null,
         recommendation |-> Null])

\* Ways a document differs from the example: a section or a field that is
\* missing, null or of another type, and other contents of a field.
Faults ==
    {[path |-> <<k>>, to |-> v] :
        k \in DOMAIN BaseDoc.v, v \in {Undefined, Null, Str("oops")}}
    \cup At1(<<"model_identification", "status">>,
        {Undefined, Null, Whole(7), Str("training"), Str("Paused")})
    \cup At1(<<"model_identification", "session_id">>,
             {Null, Whole(12345), Str("short"), Str(""),
              Str("predictor-2025-11-18"), Str("predictor-2025-11-18a")})
    \cup At1(<<"model_identification", "model_type">>,
             {Null, Str("Embedding Space"), Str("sp"), Str("ES"),
              Str("custom"), Whole(3)})
    \cup At1(<<"model_identification", "target_column_type">>,
             {Null, Str("SCALAR"), Str("other"), Whole(1)})
    \cup At1(<<"model_identification", "name">>, {Null, Whole(5)})
    \cup At1(<<"model_identification", "training_date">>,
             {Null, EmptyObject})
    \cup At1(<<"model_identification", "compute_cluster">>, {Null, Whole(4)})
    \cup At1(<<"training_dataset", "train_rows">>,
             {Undefined, Null, Str("many")})
    \cup At1(<<"training_dataset", "total_features">>, {Null})
    \cup At1(<<"training_dataset", "feature_names">>, {Null})
    \cup At1(<<"training_metrics", "best_epoch">>, {Null})
    \cup At1(<<"training_metrics", "classification_metrics">>,
             {Undefined, Null})
    \cup At1(<<"training_metrics", "classification_metrics", "precision">>,
             {Undefined, Null, Str("high"), Whole(0)})
    \cup At1(<<"training_metrics", "classification_metrics", "accuracy">>,
             {Null})
    \cup At1(<<"training_metrics", "optimal_threshold">>, {Null})
    \cup At1(<<"training_metrics", "optimal_threshold",
               "optimal_threshold_f1">>, {Undefined, Null})
    \cup At1(<<"model_quality", "assessment">>, {Str("Good"), Whole(1)})
    \cup At1(<<"model_quality", "warnings">>,
             {Undefined, Null, Arr(<<>>), Arr(<<Null>>),
              Arr(<<Warning(Null, Str("LOW_DATA"))>>),
              Arr(<<Warning(Str("HIGH"), Str("LOW_DATA")),
                    Warning(Str("low"), Null)>>),
              Arr(<<Warning(Str("low"), Str("DRIFT")),
                    Warning(Str("HIGH"), Str("LOW_DATA")),
                    Warning(Str("MODERATE"), Str("LEAKAGE"))>>)})
    \cup At1(<<"model_quality", "recommendations">>,
             {Arr(<<>>),
              Arr(<<Obj([issue |-> Str("Imbalance"),
                         suggestion |-> Str("Resample")])>>)})
    \cup At1(<<"model_architecture", "predictor_parameters">>,
             {Undefined, Null})
    \cup At1(<<"provenance", "training_duration_minutes">>,
             {Undefined, Null, Whole(125), Whole(0), Dec(5, 1), Dec(5999, 2),
              Whole(60), Dec(1254, 1), Dec(119999, 3), Dec(-15, 1)})
    \cup At1(<<"feature_inventory">>,
             {Arr([BaseDoc.v.feature_inventory.v EXCEPT
                      ![2] = Obj([@.v EXCEPT !.sample_values = sv])]) :
                 sv \in {Undefined, Arr(<<Whole(1), Dec(25, 1), Whole(3),
                                          Whole(4)>>)}
                        \cup {Arr(SubSeq(BaseDoc.v.feature_inventory.v[2]
                                             .v.sample_values.v, 1, n)) :
                                 n \in 0..5}})
    \cup At1(<<"column_statistics">>,
             {Dict(<<>>),
              Dict(<< <<"fleet_size", ColumnStats(Null, Null)>>,
                      <<"region", Null>> >>)})

\* The documents the renderers are given: the example, the example with one
\* fault, and the example with any model type and target type.
Docs ==
    {SetPath(BaseDoc, f.path, f.to) : f \in Faults}
    \cup {SetPath(SetPath(BaseDoc, <<"model_identification", "model_type">>,
                          mt),
                  <<"model_identification", "target_column_type">>, tt) :
             mt \in {Null, Str("Single Predictor"), Str("single predictor"),
                     Str("SP"), Str("Embedding Space"), Str("es"),
                     Str("custom")},
             tt \in {Null, Str("set"), Str("SET"), Str("scalar"),
                     Str("other")}}

\* Mounted ModelCard components.
Instances == {1, 2}

\* Most click listeners the model lets one button collect.
MaxListeners == 2

\* Most user actions in a run on a page with two cards.
MaxSteps == 3

\* Containers of the host page that a standalone card is rendered into, in
\* document order; Document stands for attachEventListeners() called without
\* an argument.
Cards == {1, 2}
Document == 0

\* The two builds of the standalone renderer.
FileBuild == "model-card.js"
CdnBuild  == "publish-cdn.sh"

\* The sections renderHTML joins, in its order, per build.
JsSectionOrder(build) ==
    IF build = CdnBuild
    THEN <<"identification", "metrics", "quality", "dataset">>
    ELSE <<"identification", "dataset", "metrics", "quality">>

JsSections == {"identification", "dataset", "metrics", "quality"}

(***************************************************************************)
(* What a renderer computes.  An expression either yields a value or       *)
(* raises a TypeError; a cell is one labelled value of the output, a badge *)
(* a cell with a background colour.                                        *)
(***************************************************************************)
TypeError == [t |-> "TypeError"]
Threw(x) == x.t = "TypeError"

\* `${x}`
Template(x) == Str(ToText(x))

\* x.toUpperCase(), x.toLowerCase(), x.substring(0, n), x.toFixed(p),
\* x.toLocaleString(): calling a String method on anything but a string, a
\* Number method on anything but a number, or any method on null or
\* undefined is a TypeError.
CallToUpperCase(x) ==
    IF x.t # "string" THEN TypeError ELSE Str(ToUpperCase(x.v))
CallToLowerCase(x) ==
    IF x.t # "string" THEN TypeError ELSE Str(ToLowerCase(x.v))
CallSubstring0(x, n) ==
    IF x.t # "string" THEN TypeError ELSE Str(Substring0(x.v, n))
CallToFixed(x, p) ==
    IF x.t # "number" THEN TypeError ELSE Str(ToFixed(x.m, x.e, p))
CallToLocaleString(x) ==
    IF IsAbsent(x) THEN TypeError ELSE Str(ToLocaleText(x))

Badge(label, x, color) == [label |-> label, out |-> x, color |-> color]
Cell(label, x) == Badge(label, x, Str(""))
AnyThrew(cells) ==
    \E k \in 1..Len(cells) : Threw(cells[k].out) \/ Threw(cells[k].color)

\* `${x || 'N/A'}` and `${(x || 'N/A').toUpperCase()}`
OrNA(x) == Template(OrElse(x, Str("N/A")))
UpperOrNA(x) == CallToUpperCase(OrElse(x, Str("N/A")))

(***************************************************************************)
(* FeatrixModelCard: the helpers the two builds share word for word.       *)
(***************************************************************************)
FeatrixModelCard_getStatusColor(status) ==
    LET statusLower == CallToLowerCase(OrElse(status, Str("")))
    IN  CASE Threw(statusLower)             -> TypeError
          [] statusLower = Str("done")      -> Str("#28a745")
          [] statusLower = Str("training")  -> Str("#ffc107")
          [] statusLower = Str("failed")    -> Str("#dc3545")
          [] OTHER                          -> Str("#6c757d")

FeatrixModelCard_getQualityColor(assessment) ==
    IF ~Truthy(assessment) THEN Str("#6c757d")
    ELSE LET assessmentLower == CallToLowerCase(assessment)
         IN  CASE Threw(assessmentLower)             -> TypeError
               [] assessmentLower = Str("excellent") -> Str("#28a745")
               [] assessmentLower = Str("good")      -> Str("#007bff")
               [] assessmentLower = Str("fair")      -> Str("#ffc107")
               [] assessmentLower = Str("poor")      -> Str("#fd7e14")
               [] OTHER                              -> Str("#6c757d")

FeatrixModelCard_getSeverityColor(severity) ==
    LET severityLower == CallToLowerCase(OrElse(severity, Str("")))
    IN  CASE Threw(severityLower)             -> TypeError
          [] severityLower = Str("high")      -> Str("#dc3545")
          [] severityLower = Str("moderate")  -> Str("#ffc107")
          [] severityLower = Str("low")       -> Str("#007bff")
          [] OTHER                            -> Str("#6c757d")

\* formatValue(value, precision): `precision || 4` first; an array or an
\* object comes back as its JSON text inside <pre>, kept here as the value.
FeatrixModelCard_formatValue(value, precision) ==
    LET p == OrElse(precision, Whole(4))
    IN  CASE IsAbsent(value)     -> Str("<em>N/A</em>")
          [] value.t = "number"  ->
                Str(StripZeros(ToFixed(value.m, value.e, p.m)))
          [] value.t \in {"string", "boolean"} -> Template(value)
          [] OTHER               -> [t |-> "pre", json |-> value]

\* value * 100 is a number only for a number or a boolean (the strings of
\* the model are not numerals); NaN.toFixed(2) is "NaN".
FeatrixModelCard_formatPercentage(value) ==
    CASE IsAbsent(value)     -> Str("<em>N/A</em>")
      [] value.t = "number"  -> Str(ToFixed(value.m * 100, value.e, 2) \o "%")
      [] value.t = "boolean" ->
            Str((IF value.v THEN "100.00" ELSE "0.00") \o "%")
      [] OTHER               -> Str("NaN%")

\* The model type shown by the build of publish-cdn.sh.
modelTypeDisplay(mi) ==
    LET model_type     == Get(mi, "model_type")
        modelTypeLower == CallToLowerCase(model_type)
        targetTypeLower ==
            CallToLowerCase(OrElse(Get(mi, "target_column_type"), Str("")))
    IN  IF ~Truthy(model_type) THEN Str("N/A")
        ELSE IF Threw(modelTypeLower) \/ Threw(targetTypeLower) THEN TypeError
        ELSE IF modelTypeLower \in {Str("embedding space"), Str("es")}
             THEN Str("Foundational Embedding Space")
        ELSE IF modelTypeLower \in {Str("single predictor"), Str("sp")}
             THEN CASE targetTypeLower = Str("set")    -> Str("Classifier")
                    [] targetTypeLower = Str("scalar") -> Str("Regression")
                    [] OTHER                           -> Str("Single Predictor")
        ELSE Template(model_type)

\* The section a renderer returned: its heading and the cells under it.
Section(id, heading, cells) ==
    [id |-> id, heading |-> heading, cells |-> cells]

renderModelIdentification(build, doc) ==
    LET mi == OrElse(Get(doc, "model_identification"), EmptyObject)
        statusColor == FeatrixModelCard_getStatusColor(Get(mi, "status"))
        sessionIdShort ==
            IF Truthy(Get(mi, "session_id"))
            THEN CallSubstring0(Get(mi, "session_id"), 20) ELSE Str("N/A")
        Status   == Badge("Status", UpperOrNA(Get(mi, "status")), statusColor)
        Date     == Cell("Training Date", OrNA(Get(mi, "training_date")))
        Session  == Cell("Session ID", sessionIdShort)
        Cluster  == Cell("Compute Cluster",
                         UpperOrNA(Get(mi, "compute_cluster")))
        Job      == Cell("Job ID", OrNA(Get(mi, "job_id")))
        Target   == Cell("Target Column", OrNA(Get(mi, "target_column")))
        Framework == Cell("Framework", OrNA(Get(mi, "framework")))
    IN  IF build = CdnBuild
        THEN Section("identification", "MODEL IDENTIFICATION",
                 <<Target, Cell("Model Type", modelTypeDisplay(mi)), Status,
                   Date, Session, Cluster, Job,
                   Cell("Target Type",
                        UpperOrNA(Get(mi, "target_column_type"))),
                   Framework>>)
        ELSE Section("identification", "Model Identification",
                 <<Session, Cluster, Date, Status, Job,
                   Cell("Model Type", OrNA(Get(mi, "model_type"))), Target,
                   Cell("Target Type", OrNA(Get(mi, "target_column_type"))),
                   Framework>>)

renderTrainingDataset(build, doc) ==
    LET td == OrElse(Get(doc, "training_dataset"), EmptyObject)
        mi == OrElse(Get(doc, "model_identification"), EmptyObject)
    IN  Section("dataset",
            IF build = CdnBuild THEN "TRAINING DATASET" ELSE "Training Dataset",
            <<Cell("Training Rows",
                   CallToLocaleString(OrElse(Get(td, "train_rows"), Whole(0)))),
              Cell("Total Features",
                   Template(OrElse(Get(td, "total_features"), Whole(0)))),
              Cell("Target Column", OrNA(Get(td, "target_column"))),
              Cell("Target Type", UpperOrNA(Get(mi, "target_column_type")))>>)

\* `${x !== null && x !== undefined ? x.toFixed(3) : 'N/A'}`
Fixed3OrNA(x) == IF IsAbsent(x) THEN Str("N/A") ELSE CallToFixed(x, 3)

renderTrainingMetrics(build, doc) ==
    LET tm == OrElse(Get(doc, "training_metrics"), EmptyObject)
        modelType ==
            OrElse(Get(OrElse(Get(doc, "model_identification"), EmptyObject),
                       "model_type"), Str(""))
        cm == Get(tm, "classification_metrics")
    IN  Section("metrics",
            IF build = CdnBuild THEN "MODEL PERFORMANCE METRICS"
                                ELSE "Model Performance Metrics",
            IF modelType = Str("Single Predictor") /\ Truthy(cm)
            THEN <<Cell("Precision", Fixed3OrNA(Get(cm, "precision"))),
                   Cell("Recall", Fixed3OrNA(Get(cm, "recall"))),
                   Cell("F1 Score", Fixed3OrNA(Get(cm, "f1"))),
                   Cell("AUC", Fixed3OrNA(Get(cm, "auc")))>>
            ELSE <<>>)

\* x.length: of an array or a string; undefined on any other value.
Length(x) ==
    CASE x.t = "array"  -> Len(x.v)
      [] x.t = "string" -> Len(x.v)
      [] OTHER          -> 0

\* x[i], i counted from 1 here.
At(x, i) == IF x.t = "array" THEN x.v[i] ELSE Str(SubSeq(x.v, i, i))

\* One pass of the loop over mq.warnings.
WarningItem(warning) ==
    IF GetThrows(warning) THEN Cell("warning", TypeError)
    ELSE Badge("warning",
               Str(ToText(OrElse(Get(warning, "severity"), Str("UNKNOWN")))
                   \o " " \o ToText(OrElse(Get(warning, "type"), Str("N/A")))
                   \o ": "
                   \o ToText(OrElse(Get(warning, "message"), Str("N/A")))),
               FeatrixModelCard_getSeverityColor(Get(warning, "severity")))

renderModelQuality_stopsEarly(build, doc) ==
    LET mq == OrElse(Get(doc, "model_quality"), EmptyObject)
        assessment == Get(mq, "assessment")
        warnings == Get(mq, "warnings")
    IN  Section("quality",
            IF build = CdnBuild THEN "MODEL QUALITY" ELSE "Model Quality",
            (IF Truthy(assessment)
             THEN <<Badge("Assessment", Template(assessment),
                          FeatrixModelCard_getQualityColor(assessment))>>
             ELSE <<>>)
            \o (IF Truthy(warnings) /\ Length(warnings) > 0
                THEN <<Cell("h3", Str("Warnings"))>>
                     \o [i \in 1..(Length(warnings) - 1) |->
                            WarningItem(At(warnings, i))]
                ELSE <<>>))

renderModelQuality(build, doc) ==
    LET mq == OrElse(Get(doc, "model_quality"), EmptyObject)
        assessment == Get(mq, "assessment")
        warnings == Get(mq, "warnings")
    IN  Section("quality",
            IF build = CdnBuild THEN "MODEL QUALITY" ELSE "Model Quality",
            (IF Truthy(assessment)
             THEN <<Badge("Assessment", Template(assessment),
                          FeatrixModelCard_getQualityColor(assessment))>>
             ELSE <<>>)
            \o (IF Truthy(warnings) /\ Length(warnings) > 0
                THEN <<Cell("h3", Str("Warnings"))>>
                     \o [i \in 1..Length(warnings) |->
                            WarningItem(At(warnings, i))]
                ELSE <<>>))

\* The function renderHTML calls for a section id.
RenderJsSection(build, doc, id) ==
    CASE id = "identification" -> renderModelIdentification(build, doc)
      [] id = "dataset"        -> renderTrainingDataset(build, doc)
      [] id = "metrics"        -> renderTrainingMetrics(build, doc)
      [] id = "quality"        -> renderModelQuality(build, doc)

\* The clock is `clock` seconds into one day; dateStr is the text renderHTML
\* builds from the fields of new Date().
DateStr(clock) ==
    "2025-11-18 " \o PadStart(ToString(clock \div 3600), 2)
        \o ":" \o PadStart(ToString((clock \div 60) % 60), 2)
        \o ":" \o PadStart(ToString(clock % 60), 2)

\* What renderHTML returns, an HTML page, or that it raised.
Raised == [threw |-> TRUE]

renderHTML(build, modelCardJson, clock) ==
    LET modelName ==
            OrElse(Get(OrElse(Get(modelCardJson, "model_identification"),
                              EmptyObject), "name"), Str("Model Card"))
        order    == JsSectionOrder(build)
        sections == [k \in 1..Len(order) |->
                        RenderJsSection(build, modelCardJson, order[k])]
        h1       == CallToUpperCase(modelName)
    IN  IF Threw(h1) \/ \E k \in 1..Len(order) : AnyThrew(sections[k].cells)
        THEN Raised
        ELSE [threw |-> FALSE,
              title |-> "Model Card - " \o ToText(modelName),
              h1 |-> "MODEL CARD: " \o h1.v,
              generated |-> "Generated: " \o DateStr(clock) \o " UTC",
              sections |-> sections]

(***************************************************************************)
(* ModelCard.tsx: helpers.                                                 *)
(***************************************************************************)
\* getStatusColor comparing the status as it is spelled.
getStatusColor_caseSensitive(status) ==
    CASE status.t # "string"       -> TypeError
      [] status = Str("done")      -> Str("#28a745")
      [] status = Str("training")  -> Str("#ffc107")
      [] status = Str("failed")    -> Str("#dc3545")
      [] OTHER                     -> Str("#000")

getStatusColor(status) ==
    LET statusLower == CallToLowerCase(status)
    IN  CASE Threw(statusLower)             -> TypeError
          [] statusLower = Str("done")      -> Str("#28a745")
          [] statusLower = Str("training")  -> Str("#ffc107")
          [] statusLower = Str("failed")    -> Str("#dc3545")
          [] OTHER                          -> Str("#000")

getQualityColor(assessment) ==
    IF ~Truthy(assessment) THEN Str("#000")
    ELSE LET assessmentLower == CallToLowerCase(assessment)
         IN  CASE Threw(assessmentLower)             -> TypeError
               [] assessmentLower = Str("excellent") -> Str("#28a745")
               [] assessmentLower = Str("good")      -> Str("#17a2b8")
               [] assessmentLower = Str("fair")      -> Str("#ffc107")
               [] assessmentLower = Str("poor")      -> Str("#fd7e14")
               [] OTHER                              -> Str("#000")

getSeverityColor(severity) ==
    LET severityLower == CallToLowerCase(severity)
    IN  CASE Threw(severityLower)             -> TypeError
          [] severityLower = Str("high")      -> Str("#dc3545")
          [] severityLower = Str("moderate")  -> Str("#ffc107")
          [] severityLower = Str("low")       -> Str("#17a2b8")
          [] OTHER                            -> Str("#000")

\* formatValue(value, precision); a call with one argument has precision 4.
formatValue(value, precision) ==
    IF IsAbsent(value) THEN Str("N/A")
    ELSE IF value.t = "number"
         THEN Str(StripZeros(ToFixed(value.m, value.e, precision)))
         ELSE Template(value)

\* value * 100 is a number only for a number or a boolean (the strings of
\* the model are not numerals); NaN.toFixed(2) is "NaN".
formatPercentage(value) ==
    CASE value.t = "null"    -> Str("N/A")
      [] value.t = "number"  -> Str(ToFixed(value.m * 100, value.e, 2) \o "%")
      [] value.t = "boolean" ->
            Str((IF value.v THEN "100.00" ELSE "0.00") \o "%")
      [] OTHER               -> Str("NaN%")

getModelTypeDisplay(modelType, targetType) ==
    LET modelTypeLower  == CallToLowerCase(modelType)
        targetTypeLower == CallToLowerCase(OrElse(targetType, Str("")))
    IN  IF ~Truthy(modelType) THEN Str("N/A")
        ELSE IF Threw(modelTypeLower) \/ Threw(targetTypeLower) THEN TypeError
        ELSE IF modelTypeLower \in {Str("embedding space"), Str("es")}
             THEN Str("Foundational Embedding Space")
        ELSE IF modelTypeLower \in {Str("single predictor"), Str("sp")}
             THEN CASE targetTypeLower = Str("set")    -> Str("Classifier")
                    [] targetTypeLower = Str("scalar") -> Str("Regression")
                    [] OTHER                           -> Str("Single Predictor")
        ELSE modelType

(***************************************************************************)
(* ModelCard.tsx: the chart data derived with useMemo.                     *)
(***************************************************************************)

\* The filter with >= in place of >.
GreaterThanZero_orZero(x) ==
    CASE x.t = "number"  -> x.m >= 0
      [] x.t = "boolean" -> TRUE
      [] OTHER           -> FALSE

\* x > 0 (a string of the model converts to NaN).
GreaterThanZero(x) ==
    CASE x.t = "number"  -> x.m > 0
      [] x.t = "boolean" -> x.v
      [] OTHER           -> FALSE

Point(name, value) == [name |-> name, value |-> value]

\* null, the series of the bar chart, or a TypeError.
metricsChartData_anyCase(doc) ==
    LET mi == Get(doc, "model_identification")
        tm == Get(doc, "training_metrics")
        cm == Get(tm, "classification_metrics")
    IN  IF GetThrows(mi) THEN TypeError
        ELSE IF CallToLowerCase(Get(mi, "model_type"))
                    # Str("single predictor") THEN Null
        ELSE IF GetThrows(tm) THEN TypeError
        ELSE IF ~Truthy(cm) THEN Null
        ELSE Arr(SelectSeq(
                <<Point("Accuracy", OrElse(Get(cm, "accuracy"), Whole(0))),
                  Point("Precision", OrElse(Get(cm, "precision"), Whole(0))),
                  Point("Recall", OrElse(Get(cm, "recall"), Whole(0))),
                  Point("F1", OrElse(Get(cm, "f1"), Whole(0))),
                  Point("AUC", OrElse(Get(cm, "auc"), Whole(0)))>>,
                LAMBDA item : GreaterThanZero(item.value)))

metricsChartData(doc) ==
    LET mi == Get(doc, "model_identification")
        tm == Get(doc, "training_metrics")
        cm == Get(tm, "classification_metrics")
    IN  IF GetThrows(mi) THEN TypeError
        ELSE IF Get(mi, "model_type") # Str("Single Predictor") THEN Null
        ELSE IF GetThrows(tm) THEN TypeError
        ELSE IF ~Truthy(cm) THEN Null
        ELSE Arr(SelectSeq(
                <<Point("Accuracy", OrElse(Get(cm, "accuracy"), Whole(0))),
                  Point("Precision", OrElse(Get(cm, "precision"), Whole(0))),
                  Point("Recall", OrElse(Get(cm, "recall"), Whole(0))),
                  Point("F1", OrElse(Get(cm, "f1"), Whole(0))),
                  Point("AUC", OrElse(Get(cm, "auc"), Whole(0)))>>,
                LAMBDA item : GreaterThanZero(item.value)))

\* A property key that is a canonical array index ("0", "7", "12").
IsIndexKey(key) ==
    /\ key # ""
    /\ \A k \in 1..Len(key) :
          \E d \in 1..10 : SubSeq("0123456789", d, d) = SubSeq(key, k, k)
    /\ key = "0" \/ SubSeq(key, 1, 1) # "0"

RECURSIVE ParseNat(_)
ParseNat(key) ==
    IF key = "" THEN 0
    ELSE 10 * ParseNat(SubSeq(key, 1, Len(key) - 1))
         + (CHOOSE d \in 0..9 :
               SubSeq("0123456789", d + 1, d + 1)
                   = SubSeq(key, Len(key), Len(key)))

\* The values of a sequence; a comparator is a table over them.
Range(seq) == {seq[k] : k \in 1..Len(seq)}

\* seq with entry x put in front of the first entry that `before` places
\* after it.
RECURSIVE InsertBy(_, _, _)
InsertBy(seq, x, before) ==
    IF seq = <<>> THEN <<x>>
    ELSE IF before[x, Head(seq)] THEN <<x>> \o seq
         ELSE <<Head(seq)>> \o InsertBy(Tail(seq), x, before)

\* Array.prototype.sort, which is stable: insertion from the left, equal
\* entries keep their order.
RECURSIVE SortBy(_, _)
SortBy(seq, before) ==
    IF seq = <<>> THEN <<>>
    ELSE InsertBy(SortBy(SubSeq(seq, 1, Len(seq) - 1), before),
                  seq[Len(seq)], before)

\* OrdinaryOwnPropertyKeys: index keys in ascending numeric order, then the
\* string keys in the order they were created.
OwnEntries(es) ==
    SortBy(SelectSeq(es, LAMBDA en : IsIndexKey(en[1])),
           [a \in Range(es), b \in Range(es) |->
               ParseNat(a[1]) < ParseNat(b[1])])
        \o SelectSeq(es, LAMBDA en : ~IsIndexKey(en[1]))

\* Object.entries(x)
ObjectEntries(x) ==
    CASE "entries" \in DOMAIN x -> OwnEntries(x.entries)
      [] x.t = "string" ->
            [k \in 1..Len(x.v) |-> <<ToString(k - 1), Str(SubSeq(x.v, k, k))>>]
      [] OTHER -> <<>>

\* typeCounts after forEach has seen the features feats[1..n]: a new key is
\* created at the end, a known key keeps its place.
RECURSIVE TypeCounts(_, _)
TypeCounts(feats, n) ==
    IF n = 0 THEN <<>>
    ELSE LET before == TypeCounts(feats, n - 1)
             key    == ToText(Get(feats[n], "type"))
         IN  IF \E k \in 1..Len(before) : before[k][1] = key
             THEN [k \in 1..Len(before) |->
                      IF before[k][1] = key
                      THEN <<key, before[k][2] + 1>> ELSE before[k]]
             ELSE Append(before, <<key, 1>>)

\* The series of the pie chart, or a TypeError.
featureTypeDistribution(doc) ==
    LET feats == Get(doc, "feature_inventory")
    IN  IF feats.t # "array" THEN TypeError
        ELSE IF \E k \in 1..Len(feats.v) : GetThrows(feats.v[k])
             THEN TypeError
        ELSE LET es == OwnEntries(TypeCounts(feats.v, Len(feats.v)))
             IN  Arr([k \in 1..Len(es) |-> Point(es[k][1], es[k][2])])

\* b - a > 0 for two numbers; with anything else the difference is NaN.
NumLess(a, b) ==
    /\ a.t = "number" /\ b.t = "number"
    /\ a.m * Pow10(b.e) < b.m * Pow10(a.e)

\* How many bars the column chart keeps.
TopColumns == 10

\* The comparator with its operands exchanged: an ascending sort.
ByMutualInfo_ascending(b, a) == NumLess(b.mutualInfo, a.mutualInfo)

\* The comparator of the sort: b comes before a when b.mutualInfo is larger.
ByMutualInfo(b, a) == NumLess(a.mutualInfo, b.mutualInfo)

\* The series with the columns of no mutual information filtered out.
columnStatisticsData_dropsZero(doc) ==
    LET cs == Get(doc, "column_statistics")
        es == ObjectEntries(cs)
    IN  IF ~Truthy(cs) THEN Null
        ELSE IF \E k \in 1..Len(es) : GetThrows(es[k][2]) THEN TypeError
        ELSE LET bars == [k \in 1..Len(es) |->
                            [name |-> es[k][1],
                             mutualInfo |->
                                 OrElse(Get(es[k][2], "mutual_information_bits"),
                                        Whole(0)),
                             marginalLoss |->
                                 OrElse(Get(es[k][2], "marginal_loss"),
                                        Whole(0))]]
                 kept   == SelectSeq(bars,
                              LAMBDA bar : GreaterThanZero(bar.mutualInfo))
                 sorted == SortBy(kept, [a \in Range(kept), b \in Range(kept)
                                            |-> ByMutualInfo(a, b)])
             IN  Arr(SubSeq(sorted, 1,
                            IF Len(sorted) < TopColumns THEN Len(sorted)
                            ELSE TopColumns))

\* null, the series of the column chart, or a TypeError.
columnStatisticsData(doc) ==
    LET cs == Get(doc, "column_statistics")
        es == ObjectEntries(cs)
    IN  IF ~Truthy(cs) THEN Null
        ELSE IF \E k \in 1..Len(es) : GetThrows(es[k][2]) THEN TypeError
        ELSE LET bars == [k \in 1..Len(es) |->
                            [name |-> es[k][1],
                             mutualInfo |->
                                 OrElse(Get(es[k][2], "mutual_information_bits"),
                                        Whole(0)),
                             marginalLoss |->
                                 OrElse(Get(es[k][2], "marginal_loss"),
                                        Whole(0))]]
                 sorted == SortBy(bars, [a \in Range(bars), b \in Range(bars)
                                            |-> ByMutualInfo(a, b)])
             IN  Arr(SubSeq(sorted, 1,
                            IF Len(sorted) < TopColumns THEN Len(sorted)
                            ELSE TopColumns))

(***************************************************************************)
(* React: which section headers a render shows.                            *)
(***************************************************************************)

\* The guard in front of the last renderSection call.
ShowsColumnStatistics(doc) ==
    /\ Truthy(Get(doc, "column_statistics"))
    /\ Len(ObjectEntries(Get(doc, "column_statistics"))) > 0

\* The ids renderSection is called with for doc, in call order.
RenderedSections(doc) ==
    SelectSeq(RenderOrder,
              LAMBDA id : id # "column-statistics" \/ ShowsColumnStatistics(doc))

RenderedIds(doc) ==
    {RenderedSections(doc)[k] : k \in 1..Len(RenderedSections(doc))}

(***************************************************************************)
(* ModelCard.tsx: the element tree a render returns.  The content of every *)
(* section is an argument of renderSection, so it is evaluated whether the *)
(* section is open or not.                                                 *)
(***************************************************************************)

\* Array.prototype.join(', ') over the first n elements.
RECURSIVE Join(_, _)
Join(a, n) ==
    IF n = 0 THEN ""
    ELSE (IF n = 1 THEN "" ELSE Join(a, n - 1) \o ", ")
            \o (IF IsAbsent(a[n]) THEN "" ELSE ToText(a[n]))

\* {x} as a React child: null, undefined and booleans render nothing, an
\* array renders its children, a plain object is an error.
RECURSIVE ChildrenText(_, _)
ChildrenText(a, n) ==
    IF n = 0 THEN ""
    ELSE ChildrenText(a, n - 1)
            \o (IF a[n].t \in {"string", "number"} THEN ToText(a[n]) ELSE "")
Child(x) ==
    CASE x.t \in {"string", "number"} -> Template(x)
      [] x.t \in {"null", "undefined", "boolean"} -> Str("")
      [] x.t = "array" ->
            IF \E k \in 1..Len(x.v) : x.v[k].t \in {"object", "array"}
            THEN TypeError ELSE Str(ChildrenText(x.v, Len(x.v)))
      [] OTHER -> TypeError

\* {x && <cells/>}: the cells when x is truthy, else x itself as a child.
Guarded(x, cells) ==
    IF Truthy(x) THEN cells
    ELSE IF Child(x) = Str("") THEN <<>> ELSE <<Cell("", Child(x))>>

\* Content that reads a property of an absent object.
Broken == <<Cell("", TypeError)>>

HeaderCells(doc) ==
    LET mi == Get(doc, "model_identification")
    IN  IF GetThrows(mi) THEN Broken
        ELSE <<Cell("h1", Child(Get(mi, "name"))),
               Cell("model_type", Child(Get(mi, "model_type"))),
               Cell("status", Child(Get(mi, "status"))),
               Cell("training_date", Child(Get(mi, "training_date")))>>

IdentificationContent(doc) ==
    LET mi == Get(doc, "model_identification")
    IN  IF GetThrows(mi) THEN Broken
        ELSE <<Cell("Target Column",
                    Child(OrElse(Get(mi, "target_column"), Str("N/A")))),
               Cell("Model Type",
                    getModelTypeDisplay(Get(mi, "model_type"),
                                        Get(mi, "target_column_type"))),
               Badge("Status", Child(Get(mi, "status")),
                     getStatusColor(Get(mi, "status"))),
               Cell("Training Date", Child(Get(mi, "training_date"))),
               Cell("Session ID", CallSubstring0(Get(mi, "session_id"), 20)),
               Cell("Compute Cluster", Child(Get(mi, "compute_cluster"))),
               Cell("Job ID", Child(Get(mi, "job_id"))),
               Cell("Target Type", UpperOrNA(Get(mi, "target_column_type"))),
               Cell("Framework", Child(Get(mi, "framework")))>>

MetricsContent(doc) ==
    LET tm    == Get(doc, "training_metrics")
        be    == Get(tm, "best_epoch")
        cm    == Get(tm, "classification_metrics")
        ot    == Get(tm, "optimal_threshold")
        chart == metricsChartData(doc)
    IN  IF GetThrows(tm) \/ GetThrows(be) THEN Broken
        ELSE <<Cell("Epoch", Child(Get(be, "epoch"))),
               Cell("Validation Loss",
                    formatValue(Get(be, "validation_loss"), 4)),
               Cell("Train Loss", formatValue(Get(be, "train_loss"), 4))>>
             \o Guarded(cm,
                    <<Cell("Precision", formatValue(Get(cm, "precision"), 3)),
                      Cell("Recall", formatValue(Get(cm, "recall"), 3)),
                      Cell("F1 Score", formatValue(Get(cm, "f1"), 3)),
                      Cell("AUC", formatValue(Get(cm, "auc"), 3))>>
                    \o (IF Truthy(chart) /\ Length(chart) > 0
                        THEN <<Cell("Metrics Visualization", chart)>>
                        ELSE <<>>))
             \o Guarded(ot,
                    <<Cell("Optimal Threshold",
                           formatValue(Get(ot, "optimal_threshold"), 4)),
                      Cell("Positive Label",
                           Child(OrElse(Get(ot, "pos_label"), Str("N/A")))),
                      Cell("F1 at Optimal Threshold",
                           formatPercentage(Get(ot, "optimal_threshold_f1"))),
                      Cell("Accuracy at Optimal Threshold",
                           formatPercentage(
                               Get(ot, "accuracy_at_optimal_threshold")))>>)

\* x.map(...): the cells made of the entries of x, when x is an array.
MapCells(x, cells) == IF x.t # "array" THEN Broken ELSE cells

WarningCell(warning) ==
    IF GetThrows(warning) THEN Cell("warning", TypeError)
    ELSE LET severity == Child(Get(warning, "severity"))
             type     == Child(Get(warning, "type"))
             message  == Child(Get(warning, "message"))
             rec      == Get(warning, "recommendation")
             advice   == Guarded(rec, <<Cell("", Child(rec))>>)
         IN  IF Threw(severity) \/ Threw(type) \/ Threw(message)
                \/ AnyThrew(advice)
             THEN Cell("warning", TypeError)
             ELSE Badge("warning",
                        Str(severity.v \o " " \o type.v \o ": " \o message.v
                            \o (IF advice = <<>> THEN ""
                                ELSE " Recommendation: " \o advice[1].out.v)),
                        getSeverityColor(Get(warning, "severity")))

RecommendationCell(rec) ==
    IF GetThrows(rec) THEN Cell("recommendation", TypeError)
    ELSE LET issue == Child(Get(rec, "issue"))
             suggestion == Child(Get(rec, "suggestion"))
         IN  IF Threw(issue) \/ Threw(suggestion)
             THEN Cell("recommendation", TypeError)
             ELSE Cell("recommendation",
                       Str("Issue: " \o issue.v
                           \o " Suggestion: " \o suggestion.v))

QualityContent(doc) ==
    LET mq == Get(doc, "model_quality")
        assessment == Get(mq, "assessment")
        recs == Get(mq, "recommendations")
        warnings == Get(mq, "warnings")
    IN  IF GetThrows(mq) \/ GetThrows(warnings) THEN Broken
        ELSE Guarded(assessment,
                     <<Badge("Assessment", Child(assessment),
                             getQualityColor(assessment))>>)
             \o (IF Truthy(recs) /\ Length(recs) > 0
                 THEN MapCells(recs, [k \in 1..Length(recs) |->
                                         RecommendationCell(At(recs, k))])
                 ELSE Guarded(recs, <<>>))
             \o (IF Length(warnings) > 0
                 THEN <<Cell("h3", Str("Warnings"))>>
                      \o MapCells(warnings, [k \in 1..Length(warnings) |->
                                                WarningCell(At(warnings, k))])
                 ELSE <<>>)

DatasetContent(doc) ==
    LET td == Get(doc, "training_dataset")
        names == Get(td, "feature_names")
        pie == featureTypeDistribution(doc)
    IN  IF GetThrows(td) THEN Broken
        ELSE <<Cell("Training Rows",
                    CallToLocaleString(Get(td, "train_rows"))),
               Cell("Validation Rows",
                    CallToLocaleString(Get(td, "val_rows"))),
               Cell("Total Rows", CallToLocaleString(Get(td, "total_rows"))),
               Cell("Total Features", Child(Get(td, "total_features")))>>
             \o MapCells(names, [k \in 1..Length(names) |->
                                      Cell("tag", Child(At(names, k)))])
             \o (IF Threw(pie) THEN Broken
                 ELSE IF Length(pie) > 0
                      THEN <<Cell("Feature Type Distribution", pie)>>
                      ELSE <<>>)

\* How many sample values a feature row shows.
SampleShown == 3

\* The Sample Values cell of a feature row.
SampleValues_fromThree(sample_values) ==
    IF ~Truthy(sample_values) THEN Str("N/A")
    ELSE IF sample_values.t # "array" THEN TypeError
    ELSE LET n == Len(sample_values.v)
         IN  Str(Join(sample_values.v,
                      IF n < SampleShown THEN n ELSE SampleShown)
                 \o (IF n >= SampleShown
                     THEN " (+" \o ToString(n - SampleShown) \o " more)"
                     ELSE ""))

SampleValues(sample_values) ==
    IF ~Truthy(sample_values) THEN Str("N/A")
    ELSE IF sample_values.t # "array" THEN TypeError
    ELSE LET n == Len(sample_values.v)
         IN  Str(Join(sample_values.v,
                      IF n < SampleShown THEN n ELSE SampleShown)
                 \o (IF n > SampleShown
                     THEN " (+" \o ToString(n - SampleShown) \o " more)"
                     ELSE ""))

\* The Statistics cell of a feature row.
Statistics(st) ==
    IF ~Truthy(st) THEN Str("N/A")
    ELSE Str("Min: " \o formatValue(Get(st, "min"), 4).v
             \o ", Max: " \o formatValue(Get(st, "max"), 4).v
             \o " Mean: " \o formatValue(Get(st, "mean"), 4).v
             \o ", Std: " \o formatValue(Get(st, "std"), 4).v
             \o " Median: " \o formatValue(Get(st, "median"), 4).v)

\* x ?? 'N/A'
Coalesce(x, y) == IF IsAbsent(x) THEN y ELSE x

FeatureRow(feat) ==
    IF GetThrows(feat) THEN Broken
    ELSE <<Cell("Name", Child(Get(feat, "name"))),
           Cell("Type", Child(Get(feat, "type"))),
           Cell("Encoder", Child(Get(feat, "encoder_type"))),
           Cell("Unique Values",
                Child(Coalesce(Get(feat, "unique_values"), Str("N/A")))),
           Cell("Sample Values", SampleValues(Get(feat, "sample_values"))),
           Cell("Statistics", Statistics(Get(feat, "statistics")))>>

RECURSIVE Flatten(_)
Flatten(rows) ==
    IF rows = <<>> THEN <<>> ELSE Head(rows) \o Flatten(Tail(rows))

FeaturesContent(doc) ==
    LET feats == Get(doc, "feature_inventory")
    IN  IF feats.t # "array" THEN Broken
        ELSE Flatten([k \in 1..Len(feats.v) |-> FeatureRow(feats.v[k])])

ConfigurationContent(doc) ==
    LET tc == Get(doc, "training_configuration")
        ds == Get(tc, "dropout_schedule")
    IN  IF GetThrows(tc) THEN Broken
        ELSE <<Cell("Total Epochs", Child(Get(tc, "epochs_total"))),
               Cell("Best Epoch", Child(Get(tc, "best_epoch"))),
               Cell("d_model", Child(Get(tc, "d_model"))),
               Cell("Batch Size",
                    Child(Coalesce(Get(tc, "batch_size"), Str("N/A")))),
               Cell("Learning Rate", formatValue(Get(tc, "learning_rate"), 4)),
               Cell("Optimizer", Child(Get(tc, "optimizer")))>>
             \o Guarded(ds,
                    <<Cell("Dropout Enabled", Template(Get(ds, "enabled"))),
                      Cell("Dropout Initial",
                           formatValue(Get(ds, "initial"), 4)),
                      Cell("Dropout Final",
                           formatValue(Get(ds, "final"), 4))>>)

\* {x !== null && <row/>}
UnlessNull(x, cells) == IF x.t = "null" THEN <<>> ELSE cells

ArchitectureContent(doc) ==
    LET ma == Get(doc, "model_architecture")
        layers == Get(ma, "predictor_layers")
        params == Get(ma, "predictor_parameters")
        dmodel == Get(ma, "embedding_space_d_model")
    IN  IF GetThrows(ma) THEN Broken
        ELSE UnlessNull(layers, <<Cell("Predictor Layers", Child(layers))>>)
             \o UnlessNull(params, <<Cell("Predictor Parameters",
                                          CallToLocaleString(params))>>)
             \o UnlessNull(dmodel,
                           <<Cell("Embedding Space d_model", Child(dmodel))>>)

TechnicalContent(doc) ==
    LET td == Get(doc, "technical_details")
        normalization == Get(td, "normalization")
    IN  IF GetThrows(td) THEN Broken
        ELSE <<Cell("PyTorch Version", Child(Get(td, "pytorch_version"))),
               Cell("Device", Child(Get(td, "device"))),
               Cell("Precision", Child(Get(td, "precision"))),
               Cell("Loss Function", Child(Get(td, "loss_function")))>>
             \o Guarded(normalization,
                        <<Cell("Normalization", Child(normalization))>>)

\* The Training Duration cell: Math.floor(x / 60), Math.floor(x % 60) (the
\* remainder has the sign of x) and x.toFixed(2) of the number x = m / 10^e.
Duration_wholeMinutes(minutes) ==
    IF minutes.t # "number" THEN TypeError
    ELSE LET m    == minutes.m
             unit == Pow10(minutes.e)
         IN  Str(ToString(m \div (60 * unit)) \o "h "
                 \o ToString(m \div unit) \o "m ("
                 \o ToFixed(m, minutes.e, 2) \o " minutes)")

Duration(minutes) ==
    IF minutes.t # "number" THEN TypeError
    ELSE LET m    == minutes.m
             unit == Pow10(minutes.e)
             rem  == IF m < 0 THEN -((-m) % (60 * unit)) ELSE m % (60 * unit)
         IN  Str(ToString(m \div (60 * unit)) \o "h "
                 \o ToString(rem \div unit) \o "m ("
                 \o ToFixed(m, minutes.e, 2) \o " minutes)")

ProvenanceContent(doc) ==
    LET pv == Get(doc, "provenance")
        minutes == Get(pv, "training_duration_minutes")
    IN  IF GetThrows(pv) THEN Broken
        ELSE <<Cell("Created At", Child(Get(pv, "created_at")))>>
             \o UnlessNull(minutes,
                           <<Cell("Training Duration", Duration(minutes))>>)

ColumnRow(en) ==
    IF GetThrows(en[2]) THEN Broken
    ELSE <<Cell("Column", Str(en[1])),
           Cell("Mutual Information (bits)",
                formatValue(Get(en[2], "mutual_information_bits"), 4)),
           Cell("Marginal Loss",
                formatValue(Get(en[2], "marginal_loss"), 4))>>

ColumnStatisticsContent(doc) ==
    LET es    == ObjectEntries(Get(doc, "column_statistics"))
        chart == columnStatisticsData(doc)
    IN  (IF Truthy(chart)
         THEN <<Cell("Mutual Information by Column", chart)>> ELSE <<>>)
        \o Flatten([k \in 1..Len(es) |-> ColumnRow(es[k])])

\* The title and the content renderSection is called with for an id.
SectionTitle(id) ==
    CASE id = "model-identification"   -> "Model Identification"
      [] id = "training-metrics"       -> "Model Performance Metrics"
      [] id = "model-quality"          -> "Model Quality"
      [] id = "training-dataset"       -> "Training Dataset"
      [] id = "feature-inventory"      -> "Feature Inventory"
      [] id = "training-configuration" -> "Training Configuration"
      [] id = "model-architecture"     -> "Model Architecture"
      [] id = "technical-details"      -> "Technical Details"
      [] id = "provenance"             -> "Provenance"
      [] id = "column-statistics"      -> "Column Statistics"

SectionContent(doc, id) ==
    CASE id = "model-identification"   -> IdentificationContent(doc)
      [] id = "training-metrics"       -> MetricsContent(doc)
      [] id = "model-quality"          -> QualityContent(doc)
      [] id = "training-dataset"       -> DatasetContent(doc)
      [] id = "feature-inventory"      -> FeaturesContent(doc)
      [] id = "training-configuration" -> ConfigurationContent(doc)
      [] id = "model-architecture"     -> ArchitectureContent(doc)
      [] id = "technical-details"      -> TechnicalContent(doc)
      [] id = "provenance"             -> ProvenanceContent(doc)
      [] id = "column-statistics"      -> ColumnStatisticsContent(doc)

\* renderSection(id, title, content): the header always, the content only
\* when the id is in expandedSections.
renderSection_alwaysOpen(id, title, content, expanded) ==
    [id |-> id, heading |-> title, isOpen |-> TRUE, cells |-> content]

renderSection(id, title, content, expanded) ==
    [id |-> id, heading |-> title, isOpen |-> id \in expanded,
     cells |-> IF id \in expanded THEN content ELSE <<>>]

\* The tree ModelCard returns for a document and a value of
\* expandedSections, or that the render raised.
ModelCard(doc, expanded) ==
    LET ids == RenderedSections(doc)
    IN  IF \/ AnyThrew(HeaderCells(doc))
           \/ Threw(metricsChartData(doc))
           \/ Threw(featureTypeDistribution(doc))
           \/ Threw(columnStatisticsData(doc))
           \/ \E k \in 1..Len(ids) : AnyThrew(SectionContent(doc, ids[k]))
        THEN Raised
        ELSE [threw |-> FALSE, header |-> HeaderCells(doc),
              sections |->
                  [k \in 1..Len(ids) |->
                      renderSection(ids[k], SectionTitle(ids[k]),
                                    SectionContent(doc, ids[k]), expanded)]]

VARIABLES
    data,               \* the document: React's data prop, renderHTML's argument
    expandedSections,   \* React: instance -> Set<string> held by useState
    lastOp,             \* the handler or helper that ran last: [op, inst]
    jsBuild,            \* which build of FeatrixModelCard the page loaded
    inserted,           \* card -> container.innerHTML holds renderHTML's output
    visible,            \* card -> section -> the section's content is shown
    expandListeners,    \* card -> click listeners of its Expand All button
    collapseListeners,  \* card -> click listeners of its Collapse All button
    toggleFeatures,     \* window.toggleFeatures is defined
    page,               \* which adapter the host page uses
    steps,              \* user actions so far (bounded runs only)
    now,                \* the clock new Date() reads, in seconds
    renders             \* the last two calls of renderHTML: [at, out]

reactVars == <<data, expandedSections>>
domVars == <<jsBuild, inserted, visible, expandListeners, collapseListeners,
             toggleFeatures>>
hostVars == <<page, steps, now, renders>>
vars == <<data, expandedSections, lastOp, jsBuild, inserted, visible,
          expandListeners, collapseListeners, toggleFeatures, page, steps,
          now, renders>>

NoOp == [op |-> "none", inst |-> 0]

(***************************************************************************)
(* React: the three state handlers.                                        *)
(***************************************************************************)

\* An updater that only ever adds the id.
ToggleSet_addsOnly(prev, sectionId) == prev \cup {sectionId}

\* The updater handed to setExpandedSections by toggleSection.
ToggleSet(prev, sectionId) ==
    IF sectionId \in prev THEN prev \ {sectionId} ELSE prev \cup {sectionId}

\* onClick of a rendered section header.
toggleSection(i, sectionId) ==
    /\ sectionId \in RenderedIds(data)
    /\ expandedSections' =
          [expandedSections EXCEPT ![i] = ToggleSet(@, sectionId)]
    /\ lastOp' = [op |-> "toggleSection", inst |-> i]
    /\ UNCHANGED <<data, domVars>>

expandAll(i) ==
    /\ expandedSections' = [expandedSections EXCEPT ![i] = ExpandAllIds]
    /\ lastOp' = [op |-> "expandAll", inst |-> i]
    /\ UNCHANGED <<data, domVars>>

collapseAll(i) ==
    /\ expandedSections' = [expandedSections EXCEPT ![i] = {}]
    /\ lastOp' = [op |-> "collapseAll", inst |-> i]
    /\ UNCHANGED <<data, domVars>>

\* React runs the body of ModelCard again: it reads expandedSections,
\* derives the chart data with useMemo and returns the tree (Tree below).
render(i) ==
    /\ lastOp' = [op |-> "render", inst |-> i]
    /\ UNCHANGED <<reactVars, domVars>>

\* A component that starts over when it is given another document.
receiveData_resets(d) ==
    /\ d # data
    /\ data' = d
    /\ expandedSections' = [i \in Instances |-> InitialExpanded]
    /\ lastOp' = [op |-> "receiveData", inst |-> 0]
    /\ UNCHANGED domVars

\* The parent re-renders the component with another document: useState keeps
\* its value across renders.
receiveData(d) ==
    /\ d # data
    /\ data' = d
    /\ lastOp' = [op |-> "receiveData", inst |-> 0]
    /\ UNCHANGED <<expandedSections, domVars>>

InitReact ==
    /\ expandedSections = [i \in Instances |-> InitialExpanded]
    /\ lastOp = NoOp


(***************************************************************************)
(* Standalone renderer in a host page: renderHTML's output inserted with   *)
(* innerHTML, attachEventListeners, and the user's clicks.                 *)
(***************************************************************************)

\* No card inserted, nothing attached.
InitDom ==
    /\ jsBuild \in {FileBuild, CdnBuild}
    /\ inserted = [c \in Cards |-> FALSE]
    /\ visible = [c \in Cards |-> [s \in JsSections |-> FALSE]]
    /\ expandListeners = [c \in Cards |-> <<>>]
    /\ collapseListeners = [c \in Cards |-> <<>>]
    /\ toggleFeatures = FALSE

\* querySelector from `scope` for an element every card holds once (the
\* card's root, its .page, its two buttons): the first in document order
\* among the cards in scope; 0 when there is none.
FirstCard(scope, ins) ==
    LET inScope == {c \in Cards : ins[c] /\ (scope = Document \/ scope = c)}
    IN  IF inScope = {} THEN 0
        ELSE CHOOSE c \in inScope : \A d \in inScope : c <= d

\* The sections of renderHTML's output that hold an element with id
\* feature-table, the only element the model-card.js handlers change: the
\* four section renderers emit none.
FeatureTableSections == {}

\* A listener that flips the open flag of each section instead of setting it.
ListenerEffect_toggles(vis, scope, ins, show) ==
    IF jsBuild = CdnBuild
    THEN [vis EXCEPT ![scope] = [s \in JsSections |-> ~vis[scope][s]]]
    ELSE vis

\* A listener that looks its sections up from document instead of from the
\* card it was attached for (as the inline script of model-card.js does).
ListenerEffect_document(vis, scope, ins, show) ==
    [c \in Cards |-> IF ins[c] THEN [s \in JsSections |-> show] ELSE vis[c]]

\* What one click listener does to the shown sections.  The CDN build's
\* listener closes over the card found when it was attached and sets the open
\* flag of each of its <details>.  The model-card.js listener closes over the
\* container, looks up its .page at click time and sets the display of the
\* feature table of each section that has one.
ListenerEffect(vis, scope, ins, show) ==
    IF jsBuild = CdnBuild
    THEN [vis EXCEPT ![scope] = [s \in JsSections |-> show]]
    ELSE LET pg == FirstCard(scope, ins)
         IN  IF pg = 0 THEN vis
             ELSE [vis EXCEPT ![pg] =
                     [s \in JsSections |->
                        IF s \in FeatureTableSections THEN show ELSE vis[pg][s]]]

\* The listeners of a button run in the order they were added.
RECURSIVE RunListeners(_, _, _, _)
RunListeners(vis, ls, ins, show) ==
    IF ls = <<>> THEN vis
    ELSE RunListeners(ListenerEffect(vis, Head(ls), ins, show),
                      Tail(ls), ins, show)

\* container.innerHTML = FeatrixModelCard.renderHTML(data): new elements, the
\* <details> of the CDN build carry the open attribute, the <div> sections of
\* model-card.js are plain blocks; the new buttons have no listeners and the
\* inline <script> of model-card.js does not run.
InsertHTML(c) ==
    /\ inserted' = [inserted EXCEPT ![c] = TRUE]
    /\ visible' = [visible EXCEPT ![c] = [s \in JsSections |-> TRUE]]
    /\ expandListeners' = [expandListeners EXCEPT ![c] = <<>>]
    /\ collapseListeners' = [collapseListeners EXCEPT ![c] = <<>>]
    /\ lastOp' = [op |-> "insertHTML", inst |-> c]
    /\ UNCHANGED <<reactVars, jsBuild, toggleFeatures>>

\* FeatrixModelCard.attachEventListeners(containerElement).
\* CDN build: modelCard is the first .featrix-model-card under the container
\* (the container itself when there is none, which then holds no button); the
\* listeners go on that card's buttons and close over modelCard.
\* model-card.js: the buttons are the first #expand-all-btn and
\* #collapse-all-btn under the container, the listeners close over the
\* container, and window.toggleFeatures is (re)assigned.
attachEventListeners(scope) ==
    LET card == FirstCard(scope, inserted)
        closure == IF jsBuild = CdnBuild THEN card ELSE scope
    IN  /\ card # 0 => Len(expandListeners[card]) < MaxListeners
        /\ expandListeners' =
              IF card = 0 THEN expandListeners
              ELSE [expandListeners EXCEPT ![card] = Append(@, closure)]
        /\ collapseListeners' =
              IF card = 0 THEN collapseListeners
              ELSE [collapseListeners EXCEPT ![card] = Append(@, closure)]
        /\ toggleFeatures' = (toggleFeatures \/ jsBuild = FileBuild)
        /\ lastOp' = [op |-> "attachEventListeners", inst |-> scope]
        /\ UNCHANGED <<reactVars, jsBuild, inserted, visible>>

\* A click on the Expand All button of card c.
clickExpandAll(c) ==
    /\ inserted[c]
    /\ visible' = RunListeners(visible, expandListeners[c], inserted, TRUE)
    /\ lastOp' = [op |-> "clickExpandAll", inst |-> c]
    /\ UNCHANGED <<reactVars, jsBuild, inserted, expandListeners,
                   collapseListeners, toggleFeatures>>

\* A click on the Collapse All button of card c.
clickCollapseAll(c) ==
    /\ inserted[c]
    /\ visible' = RunListeners(visible, collapseListeners[c], inserted, FALSE)
    /\ lastOp' = [op |-> "clickCollapseAll", inst |-> c]
    /\ UNCHANGED <<reactVars, jsBuild, inserted, expandListeners,
                   collapseListeners, toggleFeatures>>

\* A click on the <summary> of one <details class="section"> (CDN build): the
\* browser flips its open flag.  The <div> sections of model-card.js have no
\* toggle of their own.
clickSummary(c, s) ==
    /\ jsBuild = CdnBuild
    /\ inserted[c]
    /\ visible' = [visible EXCEPT ![c][s] = ~@]
    /\ lastOp' = [op |-> "clickSummary", inst |-> c]
    /\ UNCHANGED <<reactVars, jsBuild, inserted, expandListeners,
                   collapseListeners, toggleFeatures>>

(***************************************************************************)
(* A host page with standalone cards.                                      *)
(***************************************************************************)
InitPage ==
    /\ data = BaseDoc
    /\ InitReact
    /\ InitDom
    /\ page = "js"
    /\ steps = 0
    /\ now = 0
    /\ renders = <<>>

NextPage ==
    \/ \E c \in Cards : InsertHTML(c) /\ UNCHANGED hostVars
    \/ \E scope \in Cards \cup {Document} :
          attachEventListeners(scope) /\ UNCHANGED hostVars
    \/ \E c \in Cards : clickExpandAll(c) /\ UNCHANGED hostVars
    \/ \E c \in Cards : clickCollapseAll(c) /\ UNCHANGED hostVars
    \/ \E c \in Cards, s \in JsSections :
          clickSummary(c, s) /\ UNCHANGED hostVars

SpecPage == InitPage /\ [][NextPage]_vars

(***************************************************************************)
(* Two cards on one page at the same time: two mounted ModelCard           *)
(* components, or two containers holding renderHTML's output.              *)
(***************************************************************************)
InitTwo ==
    /\ data = BaseDoc
    /\ InitReact
    /\ jsBuild \in {FileBuild, CdnBuild}
    /\ inserted = [c \in Cards |-> TRUE]
    /\ visible = [c \in Cards |-> [s \in JsSections |-> TRUE]]
    /\ expandListeners = [c \in Cards |-> <<>>]
    /\ collapseListeners = [c \in Cards |-> <<>>]
    /\ toggleFeatures = FALSE
    /\ page \in {"react", "js"}
    /\ steps = 0
    /\ now = 0
    /\ renders = <<>>

Count ==
    steps < MaxSteps /\ steps' = steps + 1 /\ UNCHANGED <<page, now, renders>>

NextTwo ==
    \/ \E i \in Instances, id \in SectionIds :
          page = "react" /\ toggleSection(i, id) /\ Count
    \/ \E i \in Instances : page = "react" /\ expandAll(i) /\ Count
    \/ \E i \in Instances : page = "react" /\ collapseAll(i) /\ Count
    \/ \E c \in Cards : page = "js" /\ InsertHTML(c) /\ Count
    \/ \E scope \in Cards \cup {Document} :
          page = "js" /\ attachEventListeners(scope) /\ Count
    \/ \E c \in Cards : page = "js" /\ clickExpandAll(c) /\ Count
    \/ \E c \in Cards : page = "js" /\ clickCollapseAll(c) /\ Count
    \/ \E c \in Cards, s \in JsSections :
          page = "js" /\ clickSummary(c, s) /\ Count

SpecTwo == InitTwo /\ [][NextTwo]_vars

(***************************************************************************)
(* One mounted component and its user.                                     *)
(***************************************************************************)
Init ==
    /\ data \in UiDocs
    /\ InitReact
    /\ InitDom
    /\ jsBuild = CdnBuild
    /\ page = "react"
    /\ steps = 0
    /\ now = 0
    /\ renders = <<>>

Next ==
    \/ \E id \in SectionIds : toggleSection(1, id) /\ UNCHANGED hostVars
    \/ expandAll(1) /\ UNCHANGED hostVars
    \/ collapseAll(1) /\ UNCHANGED hostVars
    \/ \E d \in UiDocs : receiveData(d) /\ UNCHANGED hostVars
    \/ render(1) /\ UNCHANGED hostVars

Spec == Init /\ [][Next]_vars

(***************************************************************************)
(* Rendering a document: renderHTML called on a page while the clock runs, *)
(* or a ModelCard component mounted with the document.                     *)
(***************************************************************************)

\* Last second of the clock in the model.
MaxClock == 2

\* The tree on screen for instance i: React renders again after every
\* change of state.
Tree(i) == ModelCard(data, expandedSections[i])

\* renderHTML with its `sections` array kept between calls: a page also
\* carries the sections of the page before it.
RenderHTML_keepsSections ==
    LET out   == renderHTML(jsBuild, data, now)
        prior == IF renders = <<>> \/ renders[Len(renders)].out.threw
                 THEN <<>> ELSE renders[Len(renders)].out.sections
    IN  /\ renders' =
              (IF renders = <<>> THEN <<>> ELSE <<renders[Len(renders)]>>)
                \o <<[at |-> now,
                      out |-> IF out.threw THEN out
                              ELSE [out EXCEPT !.sections = prior \o @]]>>
        /\ lastOp' = [op |-> "renderHTML", inst |-> Document]
        /\ UNCHANGED <<reactVars, domVars, page, steps, now>>

\* The host calls FeatrixModelCard.renderHTML(data).
RenderHTML ==
    /\ renders' = (IF renders = <<>> THEN <<>> ELSE <<renders[Len(renders)]>>)
                    \o <<[at |-> now, out |-> renderHTML(jsBuild, data, now)]>>
    /\ lastOp' = [op |-> "renderHTML", inst |-> Document]
    /\ UNCHANGED <<reactVars, domVars, page, steps, now>>

\* A second passes.
Tick ==
    /\ now < MaxClock
    /\ now' = now + 1
    /\ lastOp' = [op |-> "tick", inst |-> Document]
    /\ UNCHANGED <<reactVars, domVars, page, steps, renders>>

\* The host renders <ModelCard data={data} />: the first render.
Mount ==
    /\ lastOp = NoOp
    /\ lastOp' = [op |-> "mount", inst |-> 1]
    /\ UNCHANGED <<reactVars, domVars, hostVars>>

\* The component of instance 1 is on screen.
Mounted == page = "react" /\ lastOp # NoOp /\ ~Tree(1).threw

InitRender ==
    /\ data \in Docs
    /\ InitReact
    /\ InitDom
    /\ page \in {"react", "js"}
    /\ page = "react" => jsBuild = CdnBuild
    /\ steps = 0
    /\ now = 0
    /\ renders = <<>>

NextRender ==
    \/ page = "js" /\ RenderHTML
    \/ page = "js" /\ Tick
    \/ page = "react" /\ Mount
    \/ Mounted /\ expandAll(1) /\ UNCHANGED hostVars
    \/ Mounted /\ collapseAll(1) /\ UNCHANGED hostVars

SpecRender == InitRender /\ [][NextRender]_vars

(***************************************************************************)
(* The chart data of a mounted component whose parent hands it documents   *)
(* with other metrics and other column statistics: every new document is   *)
(* rendered, and useMemo derives the series again.                         *)
(***************************************************************************)

\* The values a classification metric takes: missing, null, zero, and
\* fractions of the 0.0-1.0 range.
MetricValues == {Undefined, Null, Whole(0), Dec(5, 1), Whole(1)}
MetricKeys == <<"accuracy", "precision", "recall", "f1", "auc">>

MetricDocs ==
    {SetPath(BaseDoc, <<"training_metrics", "classification_metrics">>,
             Obj([accuracy |-> m[1], precision |-> m[2], recall |-> m[3],
                  f1 |-> m[4], auc |-> m[5], is_binary |-> Bool(TRUE)])) :
        m \in [1..5 -> MetricValues]}

\* Most columns of a column_statistics map, and the size up to which a map
\* also carries null and zero mutual information.
MaxColumns == 11
SmallColumns == 5

MutualInfoValues(n) ==
    IF n <= SmallColumns THEN {Null, Whole(0), Dec(5, 1), Whole(2)}
    ELSE {Dec(5, 1), Whole(2)}

\* Columns are named col_1, col_2, ...; a map of up to three columns is also
\* named after a text column and two years, as the columns of a table are;
\* the largest map also comes with its first or its last column null or
\* missing, and a map of three columns with missing values.
ColumnDocs ==
    {WithSection(BaseDoc, "column_statistics",
         Dict([k \in 1..Len(mi) |->
                  <<"col_" \o ToString(k), ColumnStats(mi[k], Dec(1, 2))>>])) :
        mi \in UNION {[1..n -> MutualInfoValues(n)] : n \in 0..MaxColumns}}
    \cup
    {WithSection(BaseDoc, "column_statistics",
         Dict([k \in 1..Len(mi) |->
                  <<(<<"region", "2024", "2023">>)[k],
                    ColumnStats(mi[k], Dec(1, 2))>>])) :
        mi \in UNION {[1..n -> MutualInfoValues(n)] : n \in 1..3}}
    \cup
    {WithSection(BaseDoc, "column_statistics",
         Dict([k \in 1..MaxColumns |->
                  <<"col_" \o ToString(k),
                    ColumnStats(IF k = j THEN mi ELSE Dec(5, 1),
                                Dec(1, 2))>>])) :
        j \in {1, MaxColumns}, mi \in {Null, Undefined}}
    \cup
    {WithSection(BaseDoc, "column_statistics",
         Dict([k \in 1..3 |->
                  <<"col_" \o ToString(k), ColumnStats(mi[k], Dec(1, 2))>>])) :
        mi \in [1..3 -> {Undefined, Whole(0), Dec(5, 1)}]}

\* Most features of an inventory, and the types a feature has: two of the
\* example document and one that reads as a number.
MaxFeatures == 4
FeatureTypes == {"scalar", "set", "64"}

\* Documents without column statistics whose inventory is the first feature
\* of the example document, once per entry, under each choice of types.
FeatureDocs ==
    {WithSection(WithSection(BaseDoc, "column_statistics", Undefined),
         "feature_inventory",
         Arr([k \in 1..Len(ty) |->
                 SetPath(Get(BaseDoc, "feature_inventory").v[1],
                         <<"type">>, Str(ty[k]))])) :
        ty \in UNION {[1..n -> FeatureTypes] : n \in 0..MaxFeatures}}

\* The parent passes the document with the type of one feature changed.
setFeatureType(k, ty) ==
    LET feats == Get(data, "feature_inventory").v
    IN  /\ Get(data, "column_statistics") = Undefined
        /\ k <= Len(feats)
        /\ receiveData(SetPath(data, <<"feature_inventory">>,
               Arr([feats EXCEPT ![k] = SetPath(@, <<"type">>, Str(ty))])))

\* The parent passes the document with one metric changed.
setMetric(k, v) ==
    /\ Get(data, "column_statistics") = BaseColumnStatistics
    /\ receiveData(SetPath(data, <<"training_metrics",
                                   "classification_metrics", MetricKeys[k]>>,
                           v))

\* The parent passes the document with the mutual information of one
\* column changed.
setMutualInfo(k, v) ==
    LET es == Get(data, "column_statistics").entries
    IN  /\ "entries" \in DOMAIN Get(data, "column_statistics")
        /\ Get(data, "column_statistics") # BaseColumnStatistics
        /\ k <= Len(es)
        /\ v \in MutualInfoValues(Len(es))
        /\ receiveData(WithSection(data, "column_statistics",
               Dict([es EXCEPT ![k] = <<es[k][1],
                                        ColumnStats(v, Dec(1, 2))>>])))

InitChart ==
    /\ data \in MetricDocs \cup ColumnDocs \cup FeatureDocs
    /\ InitReact
    /\ InitDom
    /\ jsBuild = CdnBuild
    /\ page = "react"
    /\ steps = 0
    /\ now = 0
    /\ renders = <<>>

NextChart ==
    \/ \E k \in 1..5, v \in MetricValues :
          setMetric(k, v) /\ UNCHANGED hostVars
    \/ \E k \in 1..MaxColumns, v \in MutualInfoValues(0) :
          setMutualInfo(k, v) /\ UNCHANGED hostVars
    \/ \E k \in 1..MaxFeatures, ty \in FeatureTypes :
          setFeatureType(k, ty) /\ UNCHANGED hostVars

SpecChart == InitChart /\ [][NextChart]_vars

(***************************************************************************)
(* The helpers on their own: the host calls a method of FeatrixModelCard,  *)
(* or a render of the React component calls one of its helpers, with a     *)
(* label or a number of the document. lastOp keeps the call and its result.*)
(***************************************************************************)

\* Largest precision a host passes to FeatrixModelCard.formatValue.
MaxPrecision == 4

\* What the documents hold where a helper reads: a status, a severity or
\* an assessment (kind "label"), a model type, a target type, or a number,
\* in several spellings; any of them may be missing or null.
HelperInputs(kind) ==
    LET words == {"done", "training", "failed", "high", "moderate", "low",
                  "excellent", "good", "fair", "poor", "paused"}
    IN  {Undefined, Null}
        \cup CASE kind = "label" ->
                    {Str(w) : w \in words}
                    \cup {Str(ToUpperCase(w)) : w \in words}
                    \cup {Str(""), Str("Done"), Str("done ")}
               [] kind = "modelType" ->
                    {Str(""), Str("Single Predictor"), Str("single predictor"),
                     Str("sp"), Str("SP"), Str("Embedding Space"), Str("es"),
                     Str("ES"), Str("Custom")}
               [] kind = "targetType" ->
                    {Str("set"), Str("SET"), Str("scalar"), Str("Scalar"),
                     Str("other")}
               [] OTHER ->
                    {Whole(0), Whole(1), Whole(100), Dec(9000, 4), Dec(10, 1),
                     Dec(15, 1), Dec(-15, 1), Dec(625, 4), Dec(452, 3),
                     Dec(123456, 5), Dec(99996, 5), Dec(12345678, 4)}

\* One call of a helper: fn(args) returned out.
callHelper(fn, args, out) ==
    /\ lastOp' = [op |-> fn, inst |-> Document, args |-> args, out |-> out]
    /\ UNCHANGED <<reactVars, domVars, hostVars>>

InitHelpers ==
    /\ data = BaseDoc
    /\ InitReact
    /\ InitDom
    /\ page \in {"react", "js"}
    /\ page = "react" => jsBuild = CdnBuild
    /\ steps = 0
    /\ now = 0
    /\ renders = <<>>

\* The React component calls formatValue with one argument or with 3, and
\* shows the model type through getModelTypeDisplay; model-card.js shows
\* `mi.model_type || 'N/A'`.
NextHelpers ==
    \/ \E v \in HelperInputs("label") :
          callHelper("getStatusColor", <<v>>,
                     IF page = "react" THEN getStatusColor(v)
                     ELSE FeatrixModelCard_getStatusColor(v))
    \/ \E v \in HelperInputs("label") :
          callHelper("getQualityColor", <<v>>,
                     IF page = "react" THEN getQualityColor(v)
                     ELSE FeatrixModelCard_getQualityColor(v))
    \/ \E v \in HelperInputs("label") :
          callHelper("getSeverityColor", <<v>>,
                     IF page = "react" THEN getSeverityColor(v)
                     ELSE FeatrixModelCard_getSeverityColor(v))
    \/ \E v \in HelperInputs("number"),
           p \in {Undefined}
                   \cup (IF page = "react" THEN {Whole(3)}
                         ELSE {Whole(k) : k \in 0..MaxPrecision}) :
          callHelper("formatValue", <<v, p>>,
                     IF page = "react"
                     THEN formatValue(v, IF p = Undefined THEN 4 ELSE p.m)
                     ELSE FeatrixModelCard_formatValue(v, p))
    \/ \E v \in HelperInputs("number") :
          callHelper("formatPercentage", <<v>>,
                     IF page = "react" THEN formatPercentage(v)
                     ELSE FeatrixModelCard_formatPercentage(v))
    \/ \E mt \in HelperInputs("modelType"),
           tt \in HelperInputs("targetType") :
          callHelper("modelTypeDisplay", <<mt, tt>>,
                     CASE page = "react" -> getModelTypeDisplay(mt, tt)
                       [] jsBuild = CdnBuild ->
                             modelTypeDisplay(Obj([model_type |-> mt,
                                                   target_column_type |-> tt]))
                       [] OTHER -> OrNA(mt))

SpecHelpers == InitHelpers /\ [][NextHelpers]_vars

(***************************************************************************)
(* C2: once renderHTML's output is in a container and attachEventListeners *)
(* has put its listeners on the card's buttons, a click on Expand All      *)
(* leaves every section of the card shown and a click on Collapse All      *)
(* leaves every section of the card hidden.                                *)
(***************************************************************************)
ListenersAttached(c) ==
    /\ inserted[c]
    /\ expandListeners[c] # <<>>
    /\ collapseListeners[c] # <<>>

C2_ClickSetsEverySection ==
    \A c \in Cards :
        ListenersAttached(c) =>
            /\ lastOp = [op |-> "clickExpandAll", inst |-> c] =>
                  \A s \in JsSections : visible[c][s]
            /\ lastOp = [op |-> "clickCollapseAll", inst |-> c] =>
                  \A s \in JsSections : ~visible[c][s]

(***************************************************************************)
(* C7: with two cards on the page, a handler that runs for one card leaves *)
(* the expanded set and the shown sections of the other card as they were, *)
(* leaves the other card's listeners in place, and every listener on a     *)
(* card's buttons acts on that card.                                       *)
(***************************************************************************)
\* The card a listener acts on when it runs.
ListenerCard(l) == IF jsBuild = CdnBuild THEN l ELSE FirstCard(l, inserted)

OtherCardUntouched ==
    \A i \in Instances :
        lastOp'.inst # i =>
            /\ expandedSections'[i] = expandedSections[i]
            /\ visible'[i] = visible[i]
            /\ lastOp'.inst # Document =>
                  /\ expandListeners'[i] = expandListeners[i]
                  /\ collapseListeners'[i] = collapseListeners[i]

ListenersActOnOwnCard ==
    \A c \in Cards :
        /\ \A k \in 1..Len(expandListeners[c]) :
              ListenerCard(expandListeners[c][k]) = c
        /\ \A k \in 1..Len(collapseListeners[c]) :
              ListenerCard(collapseListeners[c][k]) = c

C7_InstancesIsolated ==
    [][OtherCardUntouched]_vars /\ []ListenersActOnOwnCard

\* Collapse All on the first component while the second has all ten open.
C7_Witness ==
    /\ page = "react"
    /\ lastOp = [op |-> "collapseAll", inst |-> 1]
    /\ expandedSections[1] = {}
    /\ expandedSections[2] = ExpandAllIds

(***************************************************************************)
(* C1: after expandAll the expanded set is exactly the ten section ids and *)
(* after collapseAll it is empty, whatever the state the handler ran in.   *)
(***************************************************************************)
C1_ExpandCollapseAll ==
    /\ lastOp.op = "expandAll" =>
          /\ expandedSections[lastOp.inst] = SectionIds
          /\ Cardinality(expandedSections[lastOp.inst]) = 10
    /\ lastOp.op = "collapseAll" => expandedSections[lastOp.inst] = {}

\* Expand All clicked on a card whose sections were not all open before.
C1_Witness ==
    /\ lastOp = [op |-> "expandAll", inst |-> 1]
    /\ expandedSections[1] = ExpandAllIds
    /\ "column-statistics" \notin RenderedIds(data)

(***************************************************************************)
(* What is on show: the sections and cells of the pages renderHTML has     *)
(* returned and of the tree of a mounted component.                        *)
(***************************************************************************)
Pages == {renders[k].out : k \in {k \in 1..Len(renders) : ~renders[k].out.threw}}

CellsOf(sections) ==
    UNION {{[section |-> sections[k].id, cell |-> sections[k].cells[j]] :
               j \in 1..Len(sections[k].cells)} : k \in 1..Len(sections)}

ShownCells ==
    UNION {CellsOf(pg.sections) : pg \in Pages}
        \cup (IF Mounted THEN CellsOf(Tree(1).sections) ELSE {})

ShownSectionIds ==
    UNION {{pg.sections[k].id : k \in 1..Len(pg.sections)} : pg \in Pages}
        \cup (IF Mounted
              THEN {Tree(1).sections[k].id : k \in 1..Len(Tree(1).sections)}
              ELSE {})

\* The top-level key of the document a section id stands for.
SectionKey ==
    ("identification" :> "model_identification")
    @@ ("dataset" :> "training_dataset")
    @@ ("metrics" :> "training_metrics")
    @@ ("quality" :> "model_quality")
    @@ ("model-identification" :> "model_identification")
    @@ ("training-metrics" :> "training_metrics")
    @@ ("model-quality" :> "model_quality")
    @@ ("training-dataset" :> "training_dataset")
    @@ ("feature-inventory" :> "feature_inventory")
    @@ ("training-configuration" :> "training_configuration")
    @@ ("model-architecture" :> "model_architecture")
    @@ ("technical-details" :> "technical_details")
    @@ ("provenance" :> "provenance")
    @@ ("column-statistics" :> "column_statistics")

OptionalSections ==
    {"model_quality", "training_metrics", "training_dataset",
     "column_statistics"}

(***************************************************************************)
(* C3: when an optional top-level section (model_quality,                  *)
(* training_metrics, training_dataset, column_statistics) is missing from  *)
(* the document, no adapter emits anything for it: no section with its id, *)
(* heading or shell, is in a page renderHTML returned or in the React      *)
(* tree, whatever is expanded.                                             *)
(***************************************************************************)
C3_MissingSectionEmitsNothing ==
    \A id \in ShownSectionIds :
        SectionKey[id] \in OptionalSections
            => Get(data, SectionKey[id]) # Undefined

(***************************************************************************)
(* C4: whatever field or section of a parsed document is absent, null or   *)
(* of the wrong type, renderHTML and the React render complete: no call of *)
(* renderHTML raises and no render of the component raises.                *)
(***************************************************************************)
C4_RenderNeverFails ==
    /\ \A k \in 1..Len(renders) : ~renders[k].out.threw
    /\ page = "react" /\ lastOp # NoOp => ~Tree(1).threw

\* The value at a path of keys; undefined where the path leaves the objects.
RECURSIVE GetPath(_, _)
GetPath(x, path) ==
    IF path = <<>> THEN x ELSE GetPath(Get(x, Head(path)), Tail(path))

Shown(section, path, cells) ==
    {[section |-> section, label |-> c[1], path |-> path \o <<c[2]>>] :
        c \in cells}

\* The cells that display one field of the document, per section.
IdentificationFields ==
    {<<"Session ID", "session_id">>, <<"Compute Cluster", "compute_cluster">>,
     <<"Training Date", "training_date">>, <<"Status", "status">>,
     <<"Job ID", "job_id">>, <<"Model Type", "model_type">>,
     <<"Target Column", "target_column">>,
     <<"Target Type", "target_column_type">>, <<"Framework", "framework">>}

ClassificationFields ==
    {<<"Precision", "precision">>, <<"Recall", "recall">>,
     <<"F1 Score", "f1">>, <<"AUC", "auc">>}

FieldsShown ==
    Shown("identification", <<"model_identification">>, IdentificationFields)
    \cup Shown("model-identification", <<"model_identification">>,
               IdentificationFields)
    \cup Shown("dataset", <<"training_dataset">>,
               {<<"Training Rows", "train_rows">>,
                <<"Total Features", "total_features">>,
                <<"Target Column", "target_column">>})
    \cup Shown("training-dataset", <<"training_dataset">>,
               {<<"Training Rows", "train_rows">>,
                <<"Validation Rows", "val_rows">>,
                <<"Total Rows", "total_rows">>,
                <<"Total Features", "total_features">>})
    \cup Shown("metrics", <<"training_metrics", "classification_metrics">>,
               ClassificationFields)
    \cup Shown("training-metrics",
               <<"training_metrics", "classification_metrics">>,
               ClassificationFields)
    \cup Shown("training-metrics", <<"training_metrics", "best_epoch">>,
               {<<"Epoch", "epoch">>,
                <<"Validation Loss", "validation_loss">>,
                <<"Train Loss", "train_loss">>})
    \cup Shown("training-metrics", <<"training_metrics", "optimal_threshold">>,
               {<<"Optimal Threshold", "optimal_threshold">>,
                <<"Positive Label", "pos_label">>,
                <<"F1 at Optimal Threshold", "optimal_threshold_f1">>,
                <<"Accuracy at Optimal Threshold",
                  "accuracy_at_optimal_threshold">>})

(***************************************************************************)
(* C5: every displayed field whose value is absent (null or undefined)     *)
(* shows the sentinel "N/A": no cell shows "null", "undefined", "NaN",     *)
(* nothing at all, or a substituted number such as 0 in its place.         *)
(***************************************************************************)
C5_AbsentShowsNA ==
    \A f \in FieldsShown, c \in ShownCells :
        /\ c.section = f.section
        /\ c.cell.label = f.label
        /\ IsAbsent(GetPath(data, f.path))
        => c.cell.out = Str("N/A")

WithoutGenerated(out) ==
    IF out.threw THEN out ELSE [out EXCEPT !.generated = ""]

DerivedName(modelType, targetType) ==
    LET lower  == ToLowerCase(modelType)
        target == IF targetType.t = "string" THEN ToLowerCase(targetType.v)
                  ELSE ""
    IN  CASE lower \in {"embedding space", "es"} ->
                "Foundational Embedding Space"
          [] lower \in {"single predictor", "sp"} ->
                CASE target = "set"    -> "Classifier"
                  [] target = "scalar" -> "Regression"
                  [] OTHER             -> "Single Predictor"
          [] OTHER -> modelType

\* The document names a model type and a target type the claim covers.
TypesNamed ==
    LET mi == Get(data, "model_identification")
    IN  /\ Get(mi, "model_type").t = "string"
        /\ Get(mi, "model_type").v # ""
        /\ Get(mi, "target_column_type").t \in {"string", "null", "undefined"}

MetricOrder == <<"Accuracy", "Precision", "Recall", "F1", "AUC">>

\* Where a chart name stands in that order.
OrderIndex(name) == CHOOSE k \in 1..5 : MetricOrder[k] = name

\* The classification metrics of the document, and whether the k-th of
\* them is present and not zero.
Classification ==
    Get(Get(data, "training_metrics"), "classification_metrics")
PresentNonZero(k) ==
    LET v == Get(Classification, MetricKeys[k])
    IN  ~IsAbsent(v) /\ (v.t = "number" => v.m # 0)

(***************************************************************************)
(* C9: the classification-metric series is a subsequence of Accuracy,      *)
(* Precision, Recall, F1, AUC; a metric is in it exactly when its value is *)
(* present and not zero, with its value unchanged; with all five present   *)
(* and non-zero it has exactly those five points in that order.            *)
(***************************************************************************)
C9_MetricSeries ==
    LET series == metricsChartData(data)
        s      == series.v
    IN  /\ Get(Get(data, "model_identification"), "model_type")
              = Str("Single Predictor")
        /\ Truthy(Classification)
        => /\ series.t = "array"
           /\ \A i \in 1..Len(s) : s[i].name \in Range(MetricOrder)
           /\ \A i, j \in 1..Len(s) :
                 i < j => OrderIndex(s[i].name) < OrderIndex(s[j].name)
           /\ \A k \in 1..5 :
                 (\E i \in 1..Len(s) : s[i].name = MetricOrder[k])
                     <=> PresentNonZero(k)
           /\ \A i \in 1..Len(s) :
                 s[i].value
                     = Get(Classification, MetricKeys[OrderIndex(s[i].name)])
           /\ (\A k \in 1..5 : PresentNonZero(k))
                 => [i \in 1..Len(s) |-> s[i].name] = MetricOrder

\* A new document with a null precision and a zero recall: three points.
C9_Witness ==
    /\ lastOp.op = "receiveData"
    /\ Get(Classification, "precision") = Null
    /\ Get(Classification, "recall") = Whole(0)
    /\ metricsChartData(data).t = "array"
    /\ [i \in 1..Len(metricsChartData(data).v) |->
           metricsChartData(data).v[i].name] = <<"Accuracy", "F1", "AUC">>

\* The columns of the document as Object.entries lists them, and the
\* mutual information the series gives a column.
Columns == ObjectEntries(Get(data, "column_statistics"))
MutualInfoOf(en) == OrElse(Get(en[2], "mutual_information_bits"), Whole(0))

(***************************************************************************)
(* C10: for a column_statistics map with n columns the column-statistics   *)
(* series has exactly min(n, 10) points, each a column of the map with its *)
(* mutual information, is non-increasing by mutual information, and every  *)
(* column left out has a mutual information no greater than that of every  *)
(* column kept.                                                            *)
(***************************************************************************)
C10_TopColumnsSeries ==
    LET series == columnStatisticsData(data)
        s      == series.v
        cols   == Columns
        kept   == {s[i].name : i \in 1..Len(s)}
        out    == {k \in 1..Len(cols) : cols[k][1] \notin kept}
    IN  "entries" \in DOMAIN Get(data, "column_statistics")
        => /\ series.t = "array"
           /\ Len(s) = (IF Len(cols) < 10 THEN Len(cols) ELSE 10)
           /\ Cardinality(kept) = Len(s)
           /\ \A i \in 1..Len(s) :
                 \E k \in 1..Len(cols) :
                    /\ cols[k][1] = s[i].name
                    /\ MutualInfoOf(cols[k]) = s[i].mutualInfo
           /\ \A i \in 1..(Len(s) - 1) :
                 ~NumLess(s[i].mutualInfo, s[i + 1].mutualInfo)
           /\ \A k \in out, i \in 1..Len(s) :
                 ~NumLess(s[i].mutualInfo, MutualInfoOf(cols[k]))

\* Eleven columns that are not in sorted order, and the one left out has
\* less mutual information than every column kept.
C10_Witness ==
    LET s    == columnStatisticsData(data).v
        cols == Columns
    IN  /\ lastOp.op = "receiveData"
        /\ Len(cols) = 11
        /\ Len(s) = 10
        /\ NumLess(MutualInfoOf(cols[1]), MutualInfoOf(cols[2]))
        /\ \E k \in 1..11 :
              /\ \A i \in 1..10 : s[i].name # cols[k][1]
              /\ NumLess(MutualInfoOf(cols[k]), s[10].mutualInfo)

\* The columns in the order the document lists them, and whether two
\* columns have equal mutual information in the series.
DocumentColumns == Get(data, "column_statistics").entries
Tied(a, b) == ~NumLess(a, b) /\ ~NumLess(b, a)

(***************************************************************************)
(* C11: in the column-statistics series, columns with equal mutual         *)
(* information stand in the order the document lists them, and a column    *)
(* that is left out while a column tied with it is kept comes later in the *)
(* document than the kept one.                                             *)
(***************************************************************************)
C11_TiesKeepDocumentOrder ==
    LET series == columnStatisticsData(data)
        s      == series.v
        cols   == DocumentColumns
        pos    == [i \in 1..Len(s) |->
                      CHOOSE k \in 1..Len(cols) : cols[k][1] = s[i].name]
        out    == {k \in 1..Len(cols) : \A i \in 1..Len(s) : pos[i] # k}
    IN  "entries" \in DOMAIN Get(data, "column_statistics")
        => /\ series.t = "array"
           /\ \A i, j \in 1..Len(s) :
                 i < j /\ Tied(s[i].mutualInfo, s[j].mutualInfo)
                     => pos[i] < pos[j]
           /\ \A i \in 1..Len(s), k \in out :
                 Tied(s[i].mutualInfo, MutualInfoOf(cols[k])) => pos[i] < k

\* The types of the features in the order of the inventory, and the place
\* where a type is first seen.
FeatureTypeList ==
    LET feats == Get(data, "feature_inventory").v
    IN  [k \in 1..Len(feats) |-> Get(feats[k], "type").v]
FirstSeen(ty) ==
    CHOOSE k \in 1..Len(FeatureTypeList) :
        /\ FeatureTypeList[k] = ty
        /\ \A j \in 1..(k - 1) : FeatureTypeList[j] # ty

(***************************************************************************)
(* C12: the feature-type histogram has one point for each distinct type of *)
(* the inventory, its value the number of features of that type, and the   *)
(* points stand in the order in which the types are first seen in the      *)
(* inventory.                                                              *)
(***************************************************************************)
C12_HistogramFirstSeenOrder ==
    LET pie   == featureTypeDistribution(data).v
        types == FeatureTypeList
    IN  /\ featureTypeDistribution(data).t = "array"
        /\ {pie[i].name : i \in 1..Len(pie)} = Range(types)
        /\ Len(pie) = Cardinality(Range(types))
        /\ \A i \in 1..Len(pie) :
              pie[i].value
                  = Cardinality({k \in 1..Len(types) : types[k] = pie[i].name})
        /\ \A i, j \in 1..Len(pie) :
              i < j => FirstSeen(pie[i].name) < FirstSeen(pie[j].name)

\* The raw session identifier of the document, and the cells that display
\* it.
RawSessionId == GetPath(data, <<"model_identification", "session_id">>)
SessionIdCells == {c \in ShownCells : c.cell.label = "Session ID"}
SessionIdPrefix ==
    SubSeq(RawSessionId.v, 1,
           IF Len(RawSessionId.v) < 20 THEN Len(RawSessionId.v) ELSE 20)

(***************************************************************************)
(* C13: for a raw session_id string of length n, every adapter displays    *)
(* its prefix of length min(n, 20) and nothing else.                       *)
(***************************************************************************)
C13_SessionIdPrefix ==
    RawSessionId.t = "string"
        => \A c \in SessionIdCells : c.cell.out = Str(SessionIdPrefix)

\* The three classifiers, the values each domain enumerates, and the colour
\* the adapter of the page gives a value.
Classifiers == {"getStatusColor", "getQualityColor", "getSeverityColor"}
Known(fn) ==
    CASE fn = "getStatusColor"  -> {"done", "training", "failed"}
      [] fn = "getQualityColor" -> {"excellent", "good", "fair", "poor"}
      [] OTHER                  -> {"high", "moderate", "low"}
ColourOf(adapter, fn, v) ==
    CASE fn = "getStatusColor" ->
            IF adapter = "react" THEN getStatusColor(v)
            ELSE FeatrixModelCard_getStatusColor(v)
      [] fn = "getQualityColor" ->
            IF adapter = "react" THEN getQualityColor(v)
            ELSE FeatrixModelCard_getQualityColor(v)
      [] OTHER ->
            IF adapter = "react" THEN getSeverityColor(v)
            ELSE FeatrixModelCard_getSeverityColor(v)

\* The tier of a string in a domain: the enumerated value it spells, in any
\* case of its letters, or Unknown.
TierOf(fn, v) ==
    IF ToLowerCase(v.v) \in Known(fn) THEN ToLowerCase(v.v) ELSE "Unknown"
LabelStrings == {v \in HelperInputs("label") : v.t = "string"}

(***************************************************************************)
(* C14: a classifier gives two strings of its domain the same colour       *)
(* exactly when they have the same tier: each enumerated value, in any     *)
(* case of its letters, has a tier of its own, and every other string has  *)
(* the Unknown tier, whose colour is none of theirs.                       *)
(***************************************************************************)
C14_TiersByExactMatch ==
    lastOp.op \in Classifiers /\ lastOp.args[1].t = "string"
        => /\ lastOp.out.t = "string"
           /\ \A b \in LabelStrings :
                 ColourOf(page, lastOp.op, b) = lastOp.out
                     <=> TierOf(lastOp.op, b) = TierOf(lastOp.op, lastOp.args[1])

\* DONE classified: the colour of done, not that of paused or of "done ".
C14_Witness ==
    /\ lastOp.op = "getStatusColor"
    /\ lastOp.args = <<Str("DONE")>>
    /\ lastOp.out = ColourOf(page, "getStatusColor", Str("done"))
    /\ lastOp.out # ColourOf(page, "getStatusColor", Str("done "))
    /\ page = "react"

(***************************************************************************)
(* C15: classifying a status, a severity or an assessment that is missing, *)
(* null, empty or not one of the enumerated values is never an error and   *)
(* gives the colour of the Unknown tier, in every adapter.                 *)
(***************************************************************************)
C15_UnknownNeverAnError ==
    LET v == lastOp.args[1]
    IN  lastOp.op \in Classifiers
        /\ (v.t = "string" => TierOf(lastOp.op, v) = "Unknown")
            => /\ ~Threw(lastOp.out)
               /\ lastOp.out = ColourOf(page, lastOp.op, Str("PAUSED"))

(***************************************************************************)
(* C16: for two strings of one domain, the JavaScript helper gives them    *)
(* the same colour exactly when the React helper does; and the model type  *)
(* a JavaScript build shows for a pair (model type, target type) is the    *)
(* one the React component shows for it.                                   *)
(***************************************************************************)
C16_AdaptersAgree ==
    /\ lastOp.op \in Classifiers /\ lastOp.args[1].t = "string"
          => \A b \in LabelStrings :
                ColourOf("js", lastOp.op, lastOp.args[1])
                        = ColourOf("js", lastOp.op, b)
                    <=> ColourOf("react", lastOp.op, lastOp.args[1])
                            = ColourOf("react", lastOp.op, b)
    /\ lastOp.op = "modelTypeDisplay"
          => lastOp.out = getModelTypeDisplay(lastOp.args[1], lastOp.args[2])

\* The sections of a render as the top-level keys they show, in the order
\* of the render; nothing for a render that raised.
KeysOf(out) ==
    IF out.threw THEN <<>>
    ELSE [k \in 1..Len(out.sections) |-> SectionKey[out.sections[k].id]]

\* The renders on show, and what each adapter emits for a document.
ShownRenders ==
    {KeysOf(renders[k].out) : k \in 1..Len(renders)}
        \cup (IF Mounted THEN {KeysOf(Tree(1))} ELSE {})
AdapterRenders(doc) ==
    {KeysOf(renderHTML(b, doc, now)) : b \in {FileBuild, CdnBuild}}
        \cup {KeysOf(ModelCard(doc, expanded)) : expanded \in {{}, SectionIds}}

(***************************************************************************)
(* C17: any two sections a render shows stand in the same relative order   *)
(* in every render that shows them both: in the render of any adapter, of  *)
(* this document or of the example document, with the sections expanded or *)
(* collapsed.                                                              *)
(***************************************************************************)
C17_OneFixedOrder ==
    \A s \in ShownRenders,
       r \in AdapterRenders(data) \cup AdapterRenders(BaseDoc) :
        \A i, j \in 1..Len(s), m, n \in 1..Len(r) :
            i < j /\ r[m] = s[i] /\ r[n] = s[j] => m < n

\* The three handlers of the user's actions.
UserActions == {"toggleSection", "expandAll", "collapseAll"}

(***************************************************************************)
(* C18: the expanded set changes only in a step of toggleSection,          *)
(* expandAll or collapseAll; a render (with its chart data) and a new      *)
(* document leave it as it is, and the three handlers leave the document   *)
(* as it is.                                                               *)
(***************************************************************************)
C18_OnlyUserActionsChangeExpanded ==
    [][/\ expandedSections' # expandedSections => lastOp'.op \in UserActions
       /\ lastOp'.op \in {"render", "receiveData"}
             => expandedSections' = expandedSections
       /\ lastOp'.op \in UserActions => data' = data]_vars

\* A document without column statistics has arrived while all ten ids,
\* column-statistics among them, are in the expanded set.
C18_Witness ==
    /\ lastOp.op = "receiveData"
    /\ expandedSections[1] = ExpandAllIds
    /\ "column-statistics" \notin RenderedIds(data)

\* m / 10^e rounded to p decimals (a half goes away from zero), as text: the
\* sign, the integer digits, and the fraction digits up to the last one
\* that is not zero, after a "." when there is such a digit.
RoundedText(m, e, p) ==
    LET abs    == IF m < 0 THEN -m ELSE m
        scaled == IF p >= e THEN abs * Pow10(p - e)
                  ELSE (2 * abs + Pow10(e - p)) \div (2 * Pow10(e - p))
        whole  == scaled \div Pow10(p)
        frac   == scaled % Pow10(p)
        zeros  == CHOOSE z \in 0..p :
                     /\ frac % Pow10(z) = 0
                     /\ z < p => frac % Pow10(z + 1) # 0
        digits == ToString(Pow10(p - zeros) + frac \div Pow10(zeros))
    IN  (IF m < 0 THEN "-" ELSE "") \o ToString(whole)
            \o (IF frac = 0 THEN ""
                ELSE "." \o SubSeq(digits, 2, Len(digits)))

(***************************************************************************)
(* C19: for a number v and a precision p (4 when none is passed),          *)
(* formatValue returns v rounded to p decimals, without the trailing zeros *)
(* of the fraction and without the "." when no fraction digit is left, and *)
(* with every digit of the integer part.                                   *)
(***************************************************************************)
C19_FormatValueRounds ==
    LET v == lastOp.args[1]
        p == lastOp.args[2]
    IN  lastOp.op = "formatValue" /\ v.t = "number"
            => lastOp.out
                   = Str(RoundedText(v.m, v.e, IF p = Undefined THEN 4 ELSE p.m))

\* m / 10^e times 100, rounded to two decimals (a half goes away from zero),
\* as text with both decimals and a "%".
PercentText(m, e) ==
    LET abs    == IF m < 0 THEN -m ELSE m
        scaled == IF e <= 4 THEN abs * Pow10(4 - e)
                  ELSE (2 * abs + Pow10(e - 4)) \div (2 * Pow10(e - 4))
        cents  == ToString(100 + (scaled % 100))
    IN  (IF m < 0 THEN "-" ELSE "") \o ToString(scaled \div 100)
            \o "." \o SubSeq(cents, 2, 3) \o "%"

(***************************************************************************)
(* C20: formatPercentage of a number v is v * 100 with exactly two         *)
(* decimals and a "%"; formatPercentage of an absent value (null or        *)
(* undefined) is the N/A sentinel, plain or in italics.                    *)
(***************************************************************************)
C20_PercentageTwoDecimals ==
    LET v == lastOp.args[1]
    IN  lastOp.op = "formatPercentage"
            => /\ v.t = "number" => lastOp.out = Str(PercentText(v.m, v.e))
               /\ v \in {Undefined, Null}
                     => lastOp.out \in {Str("N/A"), Str("<em>N/A</em>")}

\* The duration of the document, and the Training Duration rows on show
\* while the provenance section of the component is expanded.
TrainingDuration == GetPath(data, <<"provenance", "training_duration_minutes">>)
DurationRows == {c \in ShownCells : c.cell.label = "Training Duration"}
ProvenanceOpen == Mounted /\ "provenance" \in expandedSections[1]

\* floor(d) of d = m / 10^e, and d to two decimals (a half goes away from
\* zero) as text.
FloorOf(m, e) == m \div Pow10(e)
TwoDecimalText(m, e) ==
    LET abs    == IF m < 0 THEN -m ELSE m
        scaled == IF e <= 2 THEN abs * Pow10(2 - e)
                  ELSE (2 * abs + Pow10(e - 2)) \div (2 * Pow10(e - 2))
        cents  == ToString(100 + (scaled % 100))
    IN  (IF m < 0 THEN "-" ELSE "") \o ToString(scaled \div 100)
            \o "." \o SubSeq(cents, 2, 3)

\* H = floor(d / 60), and M = floor(d mod 60) where the remainder has the
\* sign of d.
HoursOf(m, e) == m \div (60 * Pow10(e))
MinutesOf(m, e) ==
    IF m >= 0 THEN FloorOf(m, e) % 60
    ELSE -((((-m) % (60 * Pow10(e))) + Pow10(e) - 1) \div Pow10(e))

(***************************************************************************)
(* C21: a numeric training duration d is displayed as                      *)
(* "<H>h <M>m (<d to two decimals> minutes)" with H = floor(d / 60) and    *)
(* M = floor(d mod 60); for d >= 0, 0 <= M <= 59 and 60 * H + M =          *)
(* floor(d).  A null duration gives no Training Duration row.              *)
(***************************************************************************)
C21_DurationDisplay ==
    LET d == TrainingDuration
    IN  ProvenanceOpen =>
          /\ d.t = "number" =>
                /\ DurationRows =
                      {[section |-> "provenance",
                        cell |-> Cell("Training Duration",
                           Str(ToString(HoursOf(d.m, d.e)) \o "h "
                               \o ToString(MinutesOf(d.m, d.e)) \o "m ("
                               \o TwoDecimalText(d.m, d.e) \o " minutes)"))]}
                /\ d.m >= 0 =>
                      /\ MinutesOf(d.m, d.e) \in 0..59
                      /\ 60 * HoursOf(d.m, d.e) + MinutesOf(d.m, d.e)
                            = FloorOf(d.m, d.e)
          /\ d = Null => DurationRows = {}

C21_Witness ==
    /\ ProvenanceOpen
    /\ TrainingDuration = Dec(119999, 3)
    /\ \E c \in DurationRows :
           c.cell.out = Str("1h 59m (120.00 minutes)")

\* The features of the document, and the cells of the feature table on
\* show in the component: six cells a row, the fifth is Sample Values.
Features == Get(data, "feature_inventory").v
FeatureTableOpen == Mounted /\ "feature-inventory" \in expandedSections[1]
FeatureCells ==
    LET ss == Tree(1).sections
    IN  ss[CHOOSE k \in 1..Len(ss) : ss[k].id = "feature-inventory"].cells
SampleCell(k) == FeatureCells[6 * (k - 1) + 5].out

\* The first min(n, 3) items of a list in their order with ", " between
\* them, then " (+N more)" with N = n - 3 when n > 3.
FirstThree(items) ==
    LET n == Len(items)
    IN  (IF n >= 1 THEN ToText(items[1]) ELSE "")
            \o (IF n >= 2 THEN ", " \o ToText(items[2]) ELSE "")
            \o (IF n >= 3 THEN ", " \o ToText(items[3]) ELSE "")
            \o (IF n > 3 THEN " (+" \o ToString(n - 3) \o " more)" ELSE "")

(***************************************************************************)
(* C22: the Sample Values cell of a feature whose sample_values is a list  *)
(* of n items shows the first min(n, 3) items in order joined by ", ",     *)
(* then " (+N more)" with N = n - 3 exactly when n > 3; the cell of a      *)
(* feature whose sample_values is null shows "N/A".                        *)
(***************************************************************************)
C22_SampleValuesTruncated ==
    FeatureTableOpen =>
        \A k \in 1..Len(Features) :
            LET sv == Get(Features[k], "sample_values")
            IN  /\ sv.t = "array" => SampleCell(k) = Str(FirstThree(sv.v))
                /\ sv = Null => SampleCell(k) = Str("N/A")

C22_Witness ==
    /\ FeatureTableOpen
    /\ Len(Features) = 2
    /\ Get(Features[1], "sample_values") = Null
    /\ Get(Features[2], "sample_values").t = "array"
    /\ Len(Get(Features[2], "sample_values").v) = 3
    /\ SampleCell(2) = Str("long_haul, local_delivery, regional")

\* The names in the Column cells of the column-statistics table the render
\* builds, row by row.
TableColumns ==
    LET rows == SelectSeq(ColumnStatisticsContent(data),
                          LAMBDA c : c.label = "Column")
    IN  [k \in 1..Len(rows) |-> rows[k].out.v]

(***************************************************************************)
(* C23: the render that sorts and cuts the columns for the chart leaves    *)
(* the document as it is: next to a chart of min(n, 10) columns, the       *)
(* column-statistics table of the same render lists all n columns of the   *)
(* document, in the order the document has them.                           *)
(***************************************************************************)
C23_TableListsDocumentColumns ==
    LET cols == DocumentColumns
    IN  /\ "entries" \in DOMAIN Get(data, "column_statistics")
        /\ ShowsColumnStatistics(data)
        => /\ Len(columnStatisticsData(data).v)
                 = (IF Len(cols) < 10 THEN Len(cols) ELSE 10)
           /\ TableColumns = [k \in 1..Len(cols) |-> cols[k][1]]

\* The warnings of the document, and of the cells of a quality section the
\* warning items and the "Warnings" headings, in the order they are emitted.
Warnings == GetPath(data, <<"model_quality", "warnings">>)
WarningItems(cells) == SelectSeq(cells, LAMBDA c : c.label = "warning")
WarningHeadings(cells) ==
    SelectSeq(cells, LAMBDA c : c = Cell("h3", Str("Warnings")))

\* The cells of the quality section of every page renderHTML returned, and
\* of the tree of the mounted component.
QualityCells ==
    {[adapter |-> "js", cells |-> pg.sections[k].cells] :
        <<pg, k>> \in {x \in Pages \X (1..4) :
                         /\ x[2] <= Len(x[1].sections)
                         /\ x[1].sections[x[2]].id = "quality"}}
    \cup (IF Mounted
          THEN {[adapter |-> "react", cells |-> QualityContent(data)]}
          ELSE {})

(***************************************************************************)
(* C24: the quality section a render returns has exactly one warning item  *)
(* for each element of model_quality.warnings, in the order of the list,   *)
(* under one Warnings heading; when the list is missing or empty it has no *)
(* Warnings heading and no warning item.                                   *)
(***************************************************************************)
C24_OneItemPerWarning ==
    \A q \in QualityCells :
        LET items == WarningItems(q.cells)
            n     == IF Warnings.t = "array" THEN Len(Warnings.v) ELSE 0
        IN  /\ Len(items) = n
            /\ Len(WarningHeadings(q.cells)) = (IF n > 0 THEN 1 ELSE 0)
            /\ \A i \in 1..n :
                  items[i] = (IF q.adapter = "js"
                              THEN WarningItem(Warnings.v[i])
                              ELSE WarningCell(Warnings.v[i]))

\* A page with three different warnings, listed as the document lists them.
C24_Witness ==
    /\ Warnings.t = "array"
    /\ Len(Warnings.v) = 3
    /\ \E q \in QualityCells :
          /\ q.adapter = "js"
          /\ Len(WarningItems(q.cells)) = 3
          /\ WarningItems(q.cells)[1].out = Str("low DRIFT: Low sample count")
          /\ WarningItems(q.cells)[3].out
                = Str("MODERATE LEAKAGE: Low sample count")

(***************************************************************************)
(* C25: toggleSection(id) changes whether id is in the expanded set of its *)
(* instance and leaves every other id as it was, in or out; toggling the   *)
(* same id once more gives back the set from before the first toggle.      *)
(***************************************************************************)
C25_ToggleFlipsOnlyItsId ==
    [][\A id \in SectionIds :
          LET i      == lastOp'.inst
              before == expandedSections[i]
              after  == expandedSections'[i]
          IN  /\ lastOp'.op = "toggleSection"
              /\ after = ToggleSet(before, id)
              /\ toggleSection(i, id)
              => /\ (id \in after) # (id \in before)
                 /\ after \ {id} = before \ {id}
                 /\ ToggleSet(after, id) = before]_vars

\* A toggle after which one section opened by a click is open and one
\* closed by a click is closed.
C25_Witness ==
    /\ lastOp = [op |-> "toggleSection", inst |-> 1]
    /\ expandedSections[1]
          = {"model-identification", "training-metrics", "provenance"}

\* The sections the document has for the component: the nine it always
\* renders and column-statistics when the map has a column.  The section of
\* a tree with a given id.
PresentSections ==
    LET cs == Get(data, "column_statistics")
    IN  (SectionIds \ {"column-statistics"})
            \cup (IF "entries" \in DOMAIN cs /\ Len(cs.entries) > 0
                  THEN {"column-statistics"} ELSE {})
HeadersOf(tree) == {tree.sections[k].id : k \in 1..Len(tree.sections)}
SectionOf(tree, id) ==
    tree.sections[CHOOSE k \in 1..Len(tree.sections) :
                      tree.sections[k].id = id]

(***************************************************************************)
(* C26: the tree of the component has the header of every section the      *)
(* document has, whatever the expanded set is, and the content of a        *)
(* section exactly when its id is in the expanded set; the header of a     *)
(* collapsed section takes a toggleSection, and the set that toggle leaves *)
(* has the id of the section.                                              *)
(***************************************************************************)
C26_HeadersAlwaysContentWhenExpanded ==
    \E tree \in {Tree(1)} :
        /\ ~tree.threw
        /\ HeadersOf(tree) = PresentSections
        /\ \A id \in PresentSections :
              \E sec \in {SectionOf(tree, id)} :
                  /\ sec.heading = SectionTitle(id)
                  /\ sec.isOpen = (id \in expandedSections[1])
                  /\ (sec.cells # <<>>) = (id \in expandedSections[1])
                  /\ id \notin expandedSections[1] =>
                        /\ id \in RenderedIds(data)
                        /\ id \in ToggleSet(expandedSections[1], id)

\* One section collapsed by a click and another expanded by one.
C26_Witness ==
    /\ lastOp.op = "toggleSection"
    /\ "model-quality" \notin expandedSections[1]
    /\ "provenance" \in expandedSections[1]
    /\ SectionOf(Tree(1), "model-quality").cells = <<>>
    /\ SectionOf(Tree(1), "provenance").cells # <<>>

\* The ten section ids the component knows.
KnownSectionIds ==
    {"model-identification", "training-dataset", "feature-inventory",
     "training-configuration", "training-metrics", "model-quality",
     "model-architecture", "technical-details", "provenance",
     "column-statistics"}

(***************************************************************************)
(* C27: before any handler has run the expanded set is exactly             *)
(* model-identification, training-metrics and model-quality; in every      *)
(* reachable state it is a subset of the ten known ids; after expandAll it *)
(* has column-statistics also for a document without column statistics,    *)
(* and whenever it has that id for such a document the tree has no         *)
(* column-statistics section.                                              *)
(***************************************************************************)
C27_ExpandedWithinKnownIds ==
    /\ lastOp = NoOp =>
          expandedSections[1]
              = {"model-identification", "training-metrics", "model-quality"}
    /\ expandedSections[1] \subseteq KnownSectionIds
    /\ lastOp.op = "expandAll" => "column-statistics" \in expandedSections[1]
    /\ /\ "column-statistics" \in expandedSections[1]
       /\ "column-statistics" \notin PresentSections
       => "column-statistics" \notin HeadersOf(Tree(1))

\* Expand All on a card without column statistics, then one section closed:
\* column-statistics is still in the set and not in the tree.
C27_Witness ==
    /\ lastOp.op = "toggleSection"
    /\ Get(data, "column_statistics") = Undefined
    /\ "column-statistics" \in expandedSections[1]
    /\ Cardinality(expandedSections[1]) = 9
    /\ Len(Tree(1).sections) = 9

\* The model type and the classification metrics of the document, and the
\* cells of the metrics section on show with a given label.
ModelType == GetPath(data, <<"model_identification", "model_type">>)
ClassificationMetrics ==
    GetPath(data, <<"training_metrics", "classification_metrics">>)
MetricCells(label) ==
    {c \in ShownCells : /\ c.section \in {"metrics", "training-metrics"}
                        /\ c.cell.label = label}
MetricCards ==
    \A label \in {"Precision", "Recall", "F1 Score", "AUC"} :
        MetricCells(label) # {}

(***************************************************************************)
(* C28: the classification-metric series of the component is there only    *)
(* when model_type is the exact string "Single Predictor" and              *)
(* classification_metrics is present; the metrics chart is on show only    *)
(* with a series that has a point and never without the four metric        *)
(* cards; renderHTML shows its metric grid exactly under the same test of  *)
(* the model type and the metrics.                                         *)
(***************************************************************************)
C28_ChartOnlyForSinglePredictor ==
    LET exact == /\ ModelType = Str("Single Predictor")
                 /\ Truthy(ClassificationMetrics)
    IN  /\ Mounted =>
              \E series \in {metricsChartData(data)} :
                  /\ series # Null => exact /\ series.t = "array"
                  /\ MetricCells("Metrics Visualization") # {} =>
                        /\ series # Null
                        /\ Len(series.v) > 0
                        /\ MetricCells("Metrics Visualization")
                              = {[section |-> "training-metrics",
                                  cell |-> Cell("Metrics Visualization",
                                                series)]}
                        /\ MetricCards
        /\ Pages # {} => (MetricCards <=> exact)

\* A card whose model type differs from "Single Predictor" in case only:
\* the metric cards are on show and the chart is not.
C28_Witness ==
    /\ Mounted
    /\ ModelType = Str("single predictor")
    /\ MetricCards
    /\ MetricCells("Metrics Visualization") = {}

\* The places in the document of the columns whose mutual information is
\* null or missing.
EmptyColumns ==
    {k \in 1..Len(DocumentColumns) :
        IsAbsent(Get(DocumentColumns[k][2], "mutual_information_bits"))}

(***************************************************************************)
(* C29: the column-statistics series has min(n, 10) points for a map of n  *)
(* columns, whatever their values; a column whose mutual information is    *)
(* null or missing has a point of value 0 that stands after every point    *)
(* of positive value, and is left out only by the cut to ten columns,      *)
(* when no column kept has less than 0.                                    *)
(***************************************************************************)
C29_EmptyColumnsCountAsZero ==
    LET cols == DocumentColumns
        s    == columnStatisticsData(data).v
    IN  "entries" \in DOMAIN Get(data, "column_statistics")
        => /\ Len(s) = (IF Len(cols) < 10 THEN Len(cols) ELSE 10)
           /\ \A k \in EmptyColumns :
                 \/ \E i \in 1..Len(s) :
                       /\ s[i].name = cols[k][1]
                       /\ s[i].mutualInfo = Whole(0)
                       /\ \A j \in 1..Len(s) :
                             NumLess(Whole(0), s[j].mutualInfo) => j < i
                 \/ /\ Len(cols) > 10
                    /\ \A i \in 1..Len(s) :
                          /\ s[i].name # cols[k][1]
                          /\ ~NumLess(s[i].mutualInfo, Whole(0))

\* A null column and a zero column behind a positive one that the document
\* lists last.
C29_Witness ==
    LET s == columnStatisticsData(data).v
    IN  /\ lastOp.op = "receiveData"
        /\ "entries" \in DOMAIN Get(data, "column_statistics")
        /\ Len(DocumentColumns) = 3
        /\ EmptyColumns = {1}
        /\ Get(DocumentColumns[2][2], "mutual_information_bits") = Whole(0)
        /\ s[1].name = DocumentColumns[3][1]
        /\ Len(s) = 3

\* What the sections look like after a click on the Expand All (show) or
\* the Collapse All button of card c, with the listeners ls on the button.
AfterClick(ls, show) == RunListeners(visible, ls, inserted, show)
ButtonListeners(c, show) ==
    IF show THEN expandListeners[c] ELSE collapseListeners[c]

(***************************************************************************)
(* C30: with the build of publish-cdn.sh, for a card whose container       *)
(* attachEventListeners was called on k >= 1 times, a click on Expand All  *)
(* leaves every details element of the card open and a click on Collapse   *)
(* All leaves every one closed, and the click does what it does with the   *)
(* listeners of one call only, in whatever state the earlier clicks have   *)
(* left the card.                                                          *)
(***************************************************************************)
C30_AttachTwiceClicksTheSame ==
    jsBuild = CdnBuild =>
        \A c \in Cards, show \in BOOLEAN :
            LET ls == ButtonListeners(c, show)
            IN  inserted[c] /\ Len(ls) >= 1 =>
                  /\ \A s \in JsSections : AfterClick(ls, show)[c][s] = show
                  /\ AfterClick(ls, show) = AfterClick(<<ls[1]>>, show)
                  /\ lastOp = [op |-> IF show THEN "clickExpandAll"
                                               ELSE "clickCollapseAll",
                               inst |-> c]
                        => \A s \in JsSections : visible[c][s] = show

\* Collapse All clicked on a card whose buttons carry the listeners of two
\* calls.
C30_Witness ==
    /\ jsBuild = CdnBuild
    /\ Len(collapseListeners[1]) = 2
    /\ lastOp = [op |-> "clickCollapseAll", inst |-> 1]
    /\ \A s \in JsSections : ~visible[1][s]

=============================================================================
